---- MODULE Spec2Model ----
(***************************************************************************)
(* A model of the dependency loader of @imqueue/graphql-dependency         *)
(* (src/src/dependency.ts): the registry of dependency nodes, the pre-scan *)
(* that builds the resolution cache, the incremental loader with its       *)
(* asynchronous loader and initializer calls, call memoization and the     *)
(* data mapper.                                                            *)
(*                                                                         *)
(* JavaScript values are tagged records [k, n, s]; entity objects live in  *)
(* a heap (a sequence, an object's address is its index) because the       *)
(* mapper assigns references; a request field tree is a sequence of        *)
(* entries [name, t, sub] in key (insertion) order, t telling whether the  *)
(* entry's value is a nested object (truthy) or false.                     *)
(***************************************************************************)
EXTENDS Integers, Sequences, FiniteSets, TLC

\* ---------------------------------------------------------------- bounds

\* deepest incrementalLoad recursion level the model follows
MaxDepth == 4
\* how many loader / initializer calls may reject in one load()
MaxFail == 1
\* how many create() calls the setup makes
MaxRefs == 3

\* ---------------------------------------------------------------- values

Nil == [k |-> "nil", n |-> 0, s |-> <<>>]
Num(i) == [k |-> "int", n |-> i, s |-> <<>>]
Nums(q) == [k |-> "ints", n |-> 0, s |-> q]
Ref(a) == [k |-> "ref", n |-> a, s |-> <<>>]
Refs(q) == [k |-> "refs", n |-> 0, s |-> q]

IsArray(v) == v.k \in {"ints", "refs"}

\* the elements of an array value, as values
Elems(v) ==
    IF v.k = "ints" THEN [i \in 1..Len(v.s) |-> Num(v.s[i])]
    ELSE IF v.k = "refs" THEN [i \in 1..Len(v.s) |-> Ref(v.s[i])]
    ELSE <<>>

\* JavaScript truthiness: undefined and 0 are falsy, every object and
\* every array (the empty one too) is truthy
Truthy(v) ==
    CASE v.k = "nil" -> FALSE
      [] v.k = "int" -> v.n # 0
      [] OTHER -> TRUE

\* ToNumber(ToPrimitive(v)) of an object or array operand of ==, as
\* [nan, n]: an array is joined with "," and then read as a number, so []
\* gives 0, [x] gives x and longer arrays give NaN; a plain object gives NaN
ToNumber(v) ==
    CASE v.k = "int" -> [nan |-> FALSE, n |-> v.n]
      [] v.k = "ints" /\ Len(v.s) = 0 -> [nan |-> FALSE, n |-> 0]
      [] v.k = "ints" /\ Len(v.s) = 1 -> [nan |-> FALSE, n |-> v.s[1]]
      [] v.k = "refs" /\ Len(v.s) = 0 -> [nan |-> FALSE, n |-> 0]
      [] OTHER -> [nan |-> TRUE, n |-> 0]

\* the non-strict comparison a == b of dataMatcher
LooseEq(a, b) ==
    CASE a.k = "nil" \/ b.k = "nil" -> a.k = b.k
      [] a.k = "int" /\ b.k = "int" -> a.n = b.n
      [] a.k = "int" \/ b.k = "int" ->
            /\ ~ToNumber(a).nan
            /\ ~ToNumber(b).nan
            /\ ToNumber(a).n = ToNumber(b).n
      [] a.k = "ref" /\ b.k = "ref" -> a.n = b.n
      [] OTHER -> FALSE

\* ------------------------------------------------------------- sequences

RECURSIVE SortSet(_)
\* the elements of a finite set of integers in ascending order: the order
\* of Object.keys() over integer-like keys
SortSet(S) ==
    IF S = {} THEN <<>>
    ELSE LET m == CHOOSE x \in S : \A y \in S : x <= y
         IN <<m>> \o SortSet(S \ {m})

RECURSIVE Flatten(_)
Flatten(qq) == IF qq = <<>> THEN <<>> ELSE Head(qq) \o Flatten(Tail(qq))

RECURSIVE Dedup(_)
\* [...new Set(q)]: the first occurrence of every element, in order
Dedup(q) ==
    IF q = <<>> THEN <<>>
    ELSE LET r == Dedup(SubSeq(q, 1, Len(q) - 1))
             x == q[Len(q)]
         IN IF \E i \in 1..Len(r) : r[i] = x THEN r ELSE Append(r, x)

Range(q) == {q[i] : i \in 1..Len(q)}

\* ------------------------------------------------------------ field trees

Leaf(name) == [name |-> name, t |-> FALSE, sub |-> <<>>]
Sel(name, sub) == [name |-> name, t |-> TRUE, sub |-> sub]

HasKey(fields, name) == \E i \in 1..Len(fields) : fields[i].name = name
KeyIndex(fields, name) == CHOOSE i \in 1..Len(fields) : fields[i].name = name

RECURSIVE TreeDepth(_)
\* nesting depth of a request field tree: 1 for a tree without nested
\* selections
TreeDepth(fields) ==
    LET subs == {i \in 1..Len(fields) : fields[i].t}
        RECURSIVE MaxOf(_)
        MaxOf(S) == IF S = {} THEN 0
                    ELSE LET i == CHOOSE j \in S : TRUE
                             d == TreeDepth(fields[i].sub)
                             r == MaxOf(S \ {i})
                         IN IF d > r THEN d ELSE r
    IN 1 + MaxOf(subs)

\* id: false added to the root selection alone
ensureRootId(fields) ==
    IF HasKey(fields, "id") THEN fields ELSE Append(fields, Leaf("id"))

RECURSIVE ensureIds(_)
\* adds id: false to every nested selection that has no id key
ensureIds(fields) ==
    LET withId == IF HasKey(fields, "id") THEN fields
                  ELSE Append(fields, Leaf("id"))
    IN [i \in 1..Len(withId) |->
            IF withId[i].t
            THEN [withId[i] EXCEPT !.sub = ensureIds(@)]
            ELSE withId[i]]

\* the field map src in place of target
replaceFields(target, src) == src

\* Object.assign(target, src) on field maps: a key of src replaces the
\* entry of the same name in place (shallow), new keys are appended
RECURSIVE assignFields(_, _)
assignFields(target, src) ==
    IF src = <<>> THEN target
    ELSE LET e == Head(src)
             t2 == IF HasKey(target, e.name)
                   THEN [target EXCEPT ![KeyIndex(target, e.name)] = e]
                   ELSE Append(target, e)
         IN assignFields(t2, Tail(src))

\* ----------------------------------------------------------------- schema

TypeNames == {"Company", "User", "Audit"}

\* the fields an entity object of the model may carry
EFields == {"id", "ownerId", "auditId", "auditorId", "rating",
            "relatedCompanyIds", "owner", "members", "ownerOf", "audit",
            "auditor"}

\* a GraphQLField: its name and its type, the type as the wrappers
\* (GraphQLList, GraphQLNonNull) around a base type
FieldObj(name, wraps, base) == [name |-> name, wraps |-> wraps, base |-> base]

\* type.getFields(): the schema of the README (User and Company) with an
\* Audit type added, whose auditor is a User
getFields(type) ==
    CASE type = "Company" ->
            << FieldObj("id", <<>>, "ID"),
               FieldObj("name", <<>>, "String"),
               FieldObj("ownerId", <<>>, "ID"),
               FieldObj("rating", <<>>, "Int"),
               FieldObj("owner", <<>>, "User"),
               FieldObj("members", <<"list">>, "User"),
               FieldObj("audit", <<>>, "Audit") >>
      [] type = "User" ->
            << FieldObj("id", <<>>, "ID"),
               FieldObj("name", <<>>, "String"),
               FieldObj("relatedCompanyIds", <<"list">>, "ID"),
               FieldObj("ownerOf", <<"list">>, "Company") >>
      [] OTHER ->
            << FieldObj("id", <<>>, "ID"),
               FieldObj("auditorId", <<>>, "ID"),
               FieldObj("auditor", <<>>, "User") >>

HasField(type, name) ==
    \E i \in 1..Len(getFields(type)) : getFields(type)[i].name = name
Field(type, name) ==
    getFields(type)[CHOOSE i \in 1..Len(getFields(type)) :
                        getFields(type)[i].name = name]

\* strips one GraphQLList / GraphQLNonNull wrapper
gqlType(field) ==
    IF field.wraps # <<>>
    THEN [wraps |-> Tail(field.wraps), base |-> field.base]
    ELSE [wraps |-> <<>>, base |-> field.base]

\* GraphQLDependency.deps.get(type): the node registered for an object type
depsGet(registry, type) == type.wraps = <<>> /\ type.base \in registry.deps

\* option.as.type instanceof GraphQLList
isListField(field) == field.wraps # <<>> /\ Head(field.wraps) = "list"

\* a dependency option: the destination field and the filter, the filter
\* as entries [key, src] in key order (loader argument name, source field)
Option(as, filter) == [as |-> as, filter |-> filter]

\* ------------------------------------------------------------------ sources

\* the source argument: absent, one entity object or an array of them
NoSource == [kind |-> "none", items |-> <<>>]
Obj(a) == [kind |-> "obj", items |-> <<a>>]
Arr(items) == [kind |-> "arr", items |-> items]

\* !source is false for an object and for every array, the empty one too
SrcTruthy(source) == source.kind # "none"

\* the property key an id value turns into; entities of the model carry
\* positive integer ids
KeyOf(v) == v.n

\* ------------------------------------------------------------ pure helpers

RECURSIVE makeCachedData(_, _, _)
makeCachedData(hp, items, map) ==
    IF items = <<>> THEN map
    ELSE makeCachedData(hp, Tail(items),
            (KeyOf(hp[Head(items)]["id"]) :> Head(items)) @@ map)

\* the child source with list-valued fields left out
childSingle(hp, source, field) ==
    IF ~SrcTruthy(source) THEN Arr(<<>>)
    ELSE Arr(Flatten([i \in 1..Len(source.items) |->
            LET v == hp[source.items[i]][field]
            IN IF v.k = "ref" THEN <<v.n>> ELSE <<>>]))

childSource(hp, source, field) ==
    IF ~SrcTruthy(source) THEN Arr(<<>>)
    ELSE Arr(Flatten([i \in 1..Len(source.items) |->
            LET v == hp[source.items[i]][field]
            IN CASE v.k = "ref" -> <<v.n>>
                 [] v.k = "refs" -> v.s
                 [] OTHER -> <<>>]))

\* the values of a field over the source items, list values flattened,
\* every occurrence kept
collectAll(hp, items, name) ==
    Flatten([i \in 1..Len(items) |->
            LET v == hp[items[i]][name]
            IN IF IsArray(v) THEN Elems(v) ELSE <<v>>])

\* the values a loader argument collects from the source items
collectArg(hp, items, name) ==
    Dedup(Flatten([i \in 1..Len(items) |->
            LET v == hp[items[i]][name]
            IN IF IsArray(v) THEN Elems(v) ELSE <<v>>]))

\* the arguments without the look into the entity map
makeArgsUncached(hp, source, filter, entry) ==
    IF ~SrcTruthy(source) THEN [thrown |-> TRUE, arg |-> <<>>]
    ELSE [thrown |-> FALSE,
          arg |-> [i \in 1..Len(filter) |->
                    [key |-> filter[i].key,
                     vals |-> collectArg(hp, source.items, filter[i].src)]]]

\* the arguments made from whatever the source holds, nothing thrown
makeArgsAnyway(hp, source, filter, entry) ==
    [thrown |-> FALSE,
     arg |-> [i \in 1..Len(filter) |->
                [key |-> filter[i].key,
                 vals |-> collectArg(hp, source.items, filter[i].src)]]]

\* [thrown, arg]: arg holds one entry [key, vals] per filter key
makeCallArgs(hp, source, filter, entry) ==
    IF ~SrcTruthy(source) THEN [thrown |-> TRUE, arg |-> <<>>]
    ELSE [thrown |-> FALSE,
          arg |-> [i \in 1..Len(filter) |->
            LET all == collectArg(hp, source.items, filter[i].src)
                NotCached(v) == ~(/\ entry.has
                                  /\ v.k = "int"
                                  /\ v.n \in DOMAIN entry.data)
            IN [key |-> filter[i].key,
                vals |-> IF filter[i].key = "id"
                         THEN SelectSeq(all, NotCached)
                         ELSE all]]]

\* every argument list is an array, and an array is truthy whatever its
\* length: the second test of the loop answers for the empty ones
isEmptyArg(filter) ==
    \A i \in 1..Len(filter) :
        /\ ~(Len(filter[i].vals) > 0)
        /\ ~Truthy(Refs(filter[i].vals))

\* the call signature: signature(entity.name, method + '', args)
hash(type, method, args) == <<type, method, args>>

dataMatcher(hp, data, item, from, id) ==
    LET node == hp[data[id]]
    IN \A i \in 1..Len(from) :
        LET want == hp[item][from[i].src]
            got == node[from[i].key]
        IN IF IsArray(want)
           THEN \E j \in 1..Len(Elems(want)) : LooseEq(got, Elems(want)[j])
           ELSE LooseEq(got, want)

\* the entities of data under the keys in ids, in that order
pick(data, ids) == [i \in 1..Len(ids) |-> data[ids[i]]]

\* the keys of data whose entity matches item, in Object.keys order
matching(hp, data, item, from) ==
    LET Match(id) == dataMatcher(hp, data, item, from, id)
    IN SelectSeq(SortSet(DOMAIN data), Match)

mapList(hp, data, item, from) == pick(data, matching(hp, data, item, from))

\* find(): the first of the keys, or none
firstOf(ids) == IF ids = <<>> THEN <<>> ELSE <<ids[1]>>

\* the entity under the first matching key, as a sequence of at most one
mapItem(hp, data, item, from) ==
    pick(data, firstOf(matching(hp, data, item, from)))

\* item[to] = nodes for a list field; item[to] = node for a single one,
\* found or not
assignAlways(hp, item, option, nodes) ==
    IF isListField(option.as)
    THEN [hp EXCEPT ![item][option.as.name] = Refs(nodes)]
    ELSE [hp EXCEPT ![item][option.as.name] =
            IF nodes # <<>> THEN Ref(nodes[1]) ELSE Nil]

\* item[to] = nodes for a list field; item[to] = node for a single one
\* when a node was found
assignMapped(hp, item, option, nodes) ==
    IF isListField(option.as)
    THEN [hp EXCEPT ![item][option.as.name] = Refs(nodes)]
    ELSE IF nodes # <<>>
         THEN [hp EXCEPT ![item][option.as.name] = Ref(nodes[1])]
         ELSE hp

RECURSIVE mapItems(_, _, _, _)
mapItems(hp, items, data, option) ==
    IF items = <<>> THEN hp
    ELSE mapItems(
            assignMapped(hp, Head(items), option,
                IF isListField(option.as)
                THEN mapList(hp, data, Head(items), option.filter)
                ELSE mapItem(hp, data, Head(items), option.filter)),
            Tail(items), data, option)

\* the heap after mapping data onto the destination field of every source
\* item
mapDependencyData(hp, source, data, option) ==
    mapItems(hp, source.items, data, option)

\* ------------------------------------------------------------------- state

VARIABLES
    scenario, \* names the setup of the run: its registry, services and inputs
    reg,      \* the registry: registered types and each node's configuration
    request,  \* the arguments of the load() call in progress
    heap,     \* entity objects: heap[a] is the object at address a
    cache,    \* the resolution cache of the load() call: type -> entry
    frames,   \* the incrementalLoad invocations of the call
    calls,    \* the loader and initializer invocations, in order of issue
    scan,     \* deepest recursion level the pre-scan reached
    result,   \* the state of the promise load() returned
    parked,   \* a second load() call, on entities of its own: its state
              \* while the call above runs
    setup     \* the registry while the application builds it: the node
              \* objects, the static deps map and the references create()
              \* returned

vars == <<scenario, reg, request, heap, cache, frames, calls, scan, result,
          parked, setup>>

\* ----------------------------------------------------------------- pre-scan

EmptyEntry ==
    [has |-> FALSE, fields |-> <<>>, data |-> <<>>, calls |-> {}, inits |-> {}]

\* an entry made only for a source that holds entities
touchKnown(ch, type, fields, hp, source) ==
    IF SrcTruthy(source) /\ source.items # <<>>
    THEN [ch EXCEPT ![type] =
            [has |-> TRUE,
             fields |-> assignFields(@.fields, fields),
             data |-> makeCachedData(hp, source.items, @.data),
             calls |-> {},
             inits |-> {}]]
    ELSE ch

\* merges fields and the known entities of source into the entry of type
\* and installs an empty call table
touchEntry(ch, type, fields, hp, source) ==
    [ch EXCEPT ![type] =
        [has |-> TRUE,
         fields |-> assignFields(@.fields, fields),
         data |-> IF SrcTruthy(source)
                  THEN makeCachedData(hp, source.items, @.data)
                  ELSE @.data,
         calls |-> {},
         inits |-> {}]]

\* the merged fields of the entry of a type
scanMerged(ch, entry, type) == ch[type].fields

\* the field subtree the pre-scan recurses into for a relation field
scanFields(ch, entry, type) == entry.sub

\* whether a request entry is a requested relation to a registered type
isDepField(registry, node, e) ==
    /\ e.t
    /\ HasField(node, e.name)
    /\ depsGet(registry, gqlType(Field(node, e.name)))

\* the type a requested relation field leads to
depOf(node, e) == gqlType(Field(node, e.name)).base

Deeper(acc, level) ==
    [acc EXCEPT !.deepest = IF level > @ THEN level ELSE @]

RECURSIVE buildResolutionCache(_, _, _, _, _, _, _)
RECURSIVE scanLevel(_, _, _, _, _, _, _)
RECURSIVE scanChild(_, _, _, _, _, _, _)
\* acc is [cache, deepest]; level counts the recursion depth, deepest is
\* the largest level entered so far, and levels beyond MaxDepth + 2 are not
\* followed
scanLevel(registry, hp, node, fields, source, level, acc) ==
    IF fields = <<>> THEN acc
    ELSE scanLevel(registry, hp, node, Tail(fields), source, level,
            IF isDepField(registry, node, Head(fields))
            THEN scanChild(registry, hp, depOf(node, Head(fields)),
                    Head(fields),
                    childSource(hp, source, Head(fields).name),
                    level + 1, acc)
            ELSE acc)

\* the body of the pre-scan's loop for a relation field e to type dep:
\* the entry of dep is touched and the node of dep scans the subtree
scanChild(registry, hp, dep, e, src, level, acc) ==
    buildResolutionCache(registry, hp, dep,
        scanFields(touchEntry(acc.cache, dep, e.sub, hp, src), e, dep),
        src, level,
        [acc EXCEPT !.cache = touchEntry(@, dep, e.sub, hp, src)])

\* the entry of the node alone, the relation fields left for later
scanRoot(registry, hp, node, fields, source, level, acc) ==
    Deeper([acc EXCEPT !.cache =
                IF SrcTruthy(source)
                THEN touchEntry(@, node, fields, hp, source)
                ELSE @],
           level)

buildResolutionCache(registry, hp, node, fields, source, level, acc) ==
    IF level > MaxDepth + 2
    THEN acc
    ELSE scanLevel(registry, hp, node, fields, source, level,
            Deeper([acc EXCEPT !.cache =
                        IF SrcTruthy(source)
                        THEN touchEntry(@, node, fields, hp, source)
                        ELSE @],
                   level))

\* ------------------------------------------------------- initializer gate

\* whether a filter of the options takes its values from a trigger field
usesInitField(registry, node, options) ==
    \E i \in 1..Len(options.opts) :
        \E j \in 1..Len(options.opts[i].filter) :
            options.opts[i].filter[j].src
                \in Range(registry.initFieldNames[node])

RECURSIVE waitScan(_, _, _)
waitScan(registry, node, fields) ==
    IF fields = <<>> THEN FALSE
    ELSE IF ~isDepField(registry, node, Head(fields))
         THEN waitScan(registry, node, Tail(fields))
         ELSE IF ~registry.options[node][depOf(node, Head(fields))].has
              THEN FALSE
              ELSE IF usesInitField(registry, node,
                        registry.options[node][depOf(node, Head(fields))])
                   THEN TRUE
                   ELSE waitScan(registry, node, Tail(fields))

\* whether the node has an initializer
waitAlways(registry, node, fields) == registry.init[node]

\* whether the initializer must resolve before the level's loaders start
waitForInit(registry, node, fields) ==
    IF ~registry.init[node] THEN FALSE
    ELSE IF ~registry.initFields[node] THEN TRUE
    ELSE waitScan(registry, node, fields)

\* -------------------------------------------------------------- scenarios

Entity(partial) ==
    [f \in EFields |-> IF f \in DOMAIN partial THEN partial[f] ELSE Nil]

company(id, ownerId) == Entity([id |-> Num(id), ownerId |-> Num(ownerId)])
bareCompany(id) == Entity([id |-> Num(id)])
user(id, companies) ==
    Entity([id |-> Num(id), relatedCompanyIds |-> Nums(companies)])

\* what the services behind the loaders hold
Db ==
    [t \in TypeNames |->
        CASE t = "User" -> << user(7, <<1, 2>>), user(8, <<1>>) >>
          [] t = "Company" -> << company(1, 7), company(2, 7),
                                 company(3, 8) >>
          [] OTHER -> <<>>]

\* services in which user 7, member of company 1, owns company 2 and user
\* 8, member of company 2, owns company 1
CrossDb ==
    [t \in TypeNames |->
        CASE t = "User" -> << user(7, <<1>>), user(8, <<2>>) >>
          [] t = "Company" -> << company(1, 8), company(2, 7) >>
          [] OTHER -> <<>>]

\* services in which audit 5, of company 1, was made by user 8
AuditedDb == [Db EXCEPT !["Audit"] =
                << Entity([id |-> Num(5), auditorId |-> Num(8)]) >>]

NoInit == [t \in TypeNames |-> <<>>]
OwnerIdInit ==
    [NoInit EXCEPT !["Company"] =
        << [id |-> 1, set |-> << [f |-> "ownerId", v |-> Num(7)] >>],
           [id |-> 2, set |-> << [f |-> "ownerId", v |-> Num(8)] >>] >>]
\* the last row stands under the key an absent id turns into: the
\* initializer keyed its result by item.id without looking at it
RatingInit ==
    [NoInit EXCEPT !["Company"] =
        << [id |-> 1, set |-> << [f |-> "rating", v |-> Num(5)] >>],
           [id |-> 2, set |-> << [f |-> "rating", v |-> Num(4)] >>],
           [id |-> KeyOf(Nil),
            set |-> << [f |-> "rating", v |-> Num(3)] >>] >>]

UserRatingInit ==
    [NoInit EXCEPT !["User"] =
        << [id |-> 7, set |-> << [f |-> "rating", v |-> Num(5)] >>],
           [id |-> 8, set |-> << [f |-> "rating", v |-> Num(4)] >>] >>]

\* companies 1 and 2 get the same owner, users get a rating
SameOwnerInit ==
    [UserRatingInit EXCEPT !["Company"] =
        << [id |-> 1, set |-> << [f |-> "ownerId", v |-> Num(7)] >>],
           [id |-> 2, set |-> << [f |-> "ownerId", v |-> Num(7)] >>] >>]

ownerOption ==
    Option(Field("Company", "owner"), << [key |-> "id", src |-> "ownerId"] >>)
membersOption ==
    Option(Field("Company", "members"),
           << [key |-> "relatedCompanyIds", src |-> "id"] >>)
ownerOfOption ==
    Option(Field("User", "ownerOf"), << [key |-> "ownerId", src |-> "id"] >>)

\* a relation without filter keys: every known user is a member
everyoneOption == Option(Field("Company", "members"), <<>>)

auditOption ==
    Option(Field("Company", "audit"), << [key |-> "id", src |-> "auditId"] >>)

auditorOption ==
    Option(Field("Audit", "auditor"), << [key |-> "id", src |-> "auditorId"] >>)

NoOptions == [has |-> FALSE, opts |-> <<>>]
Options(opts) == [has |-> TRUE, opts |-> opts]

\* a registry after setup: Company requires User with companyUser, User
\* requires Company with userCompany, Company has an initializer with the
\* trigger fields initNames when init holds
Registry(deps, companyUser, userCompany, init, initNames) ==
    [deps |-> deps,
     loader |-> [t \in TypeNames |-> t \in {"Company", "User"}],
     init |-> [t \in TypeNames |-> init /\ t = "Company"],
     initFields |-> [t \in TypeNames |-> init /\ t = "Company"],
     initFieldNames |-> [t \in TypeNames |->
                            IF t = "Company" THEN initNames ELSE <<>>],
     options |-> [n \in TypeNames |-> [c \in TypeNames |->
                    IF n = "Company" /\ c = "User" THEN companyUser
                    ELSE IF n = "User" /\ c = "Company" THEN userCompany
                    ELSE NoOptions]]]

\* the fields argument: absent, or a request field tree
NoFields == [present |-> FALSE, tree |-> <<>>]
Fields(tree) == [present |-> TRUE, tree |-> tree]
Input(hp, source, tree) ==
    [root |-> "Company", heap |-> hp, source |-> source,
     fields |-> Fields(tree)]

OwnerTree == << Sel("owner", << Leaf("name") >>) >>
MembersTree == << Sel("members", << Leaf("id") >>) >>
BothTree == << Sel("owner", << Leaf("name") >>),
               Sel("members", << Leaf("name") >>) >>
CycleTree == << Sel("owner", << Sel("ownerOf", << Leaf("id") >>) >>) >>
\* User reached through owner and through members, each path with its own
\* selection under ownerOf
NestedTree == << Sel("owner", << Sel("ownerOf", << Leaf("id"), Leaf("name") >>) >>),
                 Sel("members", << Sel("ownerOf", << Leaf("id") >>) >>) >>
\* the companies the members own
MembersOwnTree == << Sel("members", << Sel("ownerOf", << Leaf("id") >>) >>) >>
AuditFirstTree == << Sel("audit", << Leaf("id") >>),
                     Sel("owner", << Leaf("name") >>) >>
AuditLastTree == << Sel("owner", << Leaf("name") >>),
                    Sel("audit", << Leaf("id") >>) >>
\* the caller asks for id itself, at the root and under owner
IdTree == << Leaf("id"), Sel("owner", << Leaf("id"), Leaf("name") >>),
             Sel("members", << Leaf("name") >>) >>
\* User reached through owner and, one level deeper, through the audit
AuditorTree == << Sel("owner", << Leaf("name") >>),
                  Sel("audit", << Sel("auditor", << Leaf("name") >>) >>) >>
AuditTree == << Sel("audit", << Leaf("id") >>) >>

Companies == << company(1, 7), company(2, 7), company(3, 8) >>
\* company 1 and a company object that has no id
NoIdCompanies == << company(1, 7), Entity([ownerId |-> Num(7)]) >>
CrossCompanies == << company(1, 8), company(2, 7) >>
BareCompanies == << bareCompany(1), bareCompany(2) >>
\* the crossed companies with their members already known, and with the
\* company user 7 owns known on user 7
KnownMembers ==
    << [company(1, 8) EXCEPT !["members"] = Refs(<<3>>)],
       [company(2, 7) EXCEPT !["members"] = Refs(<<4>>)],
       [user(7, <<1>>) EXCEPT !["ownerOf"] = Refs(<<2>>)],
       user(8, <<2>>) >>
\* company 1 with its owner, user 7, already known
KnownOwner == << [company(1, 7) EXCEPT !["owner"] = Ref(2)], user(7, <<1, 2>>),
            company(3, 8) >>

\* company 1 holding an owner that its ownerId, unknown to the services,
\* does not name
StaleOwner == << [company(1, 9) EXCEPT !["owner"] = Ref(2)],
                 user(7, <<1, 2>>) >>

\* company 1, owned by user 7 and audited in audit 5
AuditedCompany == << [company(1, 7) EXCEPT !["auditId"] = Num(5)] >>

\* audit 5 known as the audit of company 1; company 2 names it in auditId
KnownAudit ==
    << [company(1, 7) EXCEPT !["auditId"] = Num(5), !["audit"] = Ref(3)],
       [company(2, 7) EXCEPT !["auditId"] = Num(5)],
       Entity([id |-> Num(5)]) >>

Sources(hp) ==
    { Arr(<<1>>), Arr(<<1, 2>>), Obj(1) } \cup
    (IF Len(hp) > 2 THEN { Arr(<<1, 3>>), Arr(<<3, 2, 1>>) } ELSE {})

Scenarios ==
    { \* one relation: Company.owner is the User whose id is ownerId
      [name |-> "owner",
       reg |-> Registry({"Company", "User"}, Options(<<ownerOption>>),
                        NoOptions, FALSE, <<>>),
       env |-> [db |-> Db, init |-> NoInit],
       inputs |-> { Input(Companies, s, OwnerTree) : s \in Sources(Companies) }
                  \cup { Input(KnownOwner, Arr(<<1>>), OwnerTree),
                         Input(KnownOwner, Arr(<<1, 3>>), OwnerTree),
                         Input(StaleOwner, Arr(<<1>>), OwnerTree),
                         Input(Companies, Arr(<<>>), OwnerTree),
                         Input(Companies, NoSource, OwnerTree),
                         Input(Companies, Arr(<<1>>), NestedTree),
                         [Input(Companies, Arr(<<1>>), <<>>)
                            EXCEPT !.fields = NoFields] }],
      \* the registry of the README
      [name |-> "readme",
       reg |-> Registry({"Company", "User"},
                        Options(<<ownerOption, membersOption>>),
                        Options(<<ownerOfOption>>), FALSE, <<>>),
       env |-> [db |-> Db, init |-> NoInit],
       inputs |-> { Input(Companies, Arr(<<1, 2>>), t) :
                        t \in {OwnerTree, MembersTree, BothTree, CycleTree} }],
      \* an initializer defined without trigger fields
      [name |-> "initAlways",
       reg |-> Registry({"Company", "User"}, Options(<<ownerOption>>),
                        NoOptions, TRUE, <<>>),
       env |-> [db |-> Db, init |-> OwnerIdInit],
       inputs |-> { Input(BareCompanies, s, OwnerTree) :
                        s \in Sources(BareCompanies) }],
      \* an initializer whose trigger field feeds the relation's filter
      [name |-> "initOwnerId",
       reg |-> Registry({"Company", "User", "Audit"},
                        Options(<<ownerOption>>), NoOptions, TRUE,
                        <<"ownerId">>),
       env |-> [db |-> Db, init |-> OwnerIdInit],
       inputs |-> { Input(BareCompanies, s, t) :
                        s \in Sources(BareCompanies),
                        t \in {OwnerTree, AuditFirstTree, AuditLastTree} }],
      \* a relation to a registered type that has no loader
      [name |-> "noLoader",
       reg |-> [Registry({"Company", "User", "Audit"},
                         Options(<<ownerOption>>), NoOptions, FALSE, <<>>)
                    EXCEPT !.options["Company"]["Audit"] =
                                Options(<<auditOption>>)],
       env |-> [db |-> Db, init |-> NoInit],
       inputs |-> { Input(KnownAudit, s, t) :
                        s \in {Arr(<<1, 2>>), Arr(<<2>>)},
                        t \in {AuditTree, AuditLastTree} }],
      \* an initializer on the child type, reached through two fields
      [name |-> "initUser",
       reg |-> [Registry({"Company", "User"},
                         Options(<<ownerOption, membersOption>>),
                         NoOptions, FALSE, <<>>)
                    EXCEPT !.init["User"] = TRUE,
                           !.initFields["User"] = TRUE,
                           !.initFieldNames["User"] = <<"rating">>],
       env |-> [db |-> Db, init |-> UserRatingInit],
       inputs |-> { Input(Companies, Arr(<<1, 3>>), t) :
                        t \in {OwnerTree, BothTree} }],
      \* a resolver called for one company at a time: initializers on
      \* both types, the same owner behind both companies
      [name |-> "sameOwner",
       reg |-> [Registry({"Company", "User"}, Options(<<ownerOption>>),
                         NoOptions, TRUE, <<"ownerId">>)
                    EXCEPT !.init["User"] = TRUE,
                           !.initFields["User"] = TRUE,
                           !.initFieldNames["User"] = <<"rating">>],
       env |-> [db |-> Db, init |-> SameOwnerInit],
       inputs |-> { Input(BareCompanies, Arr(<<1>>), OwnerTree),
                    Input(BareCompanies, Arr(<<2>>), OwnerTree) }],
      \* each company owned by the member of the other one
      [name |-> "crossed",
       reg |-> Registry({"Company", "User"}, Options(<<membersOption>>),
                        Options(<<ownerOfOption>>), FALSE, <<>>),
       env |-> [db |-> CrossDb, init |-> NoInit],
       inputs |-> { Input(CrossCompanies, Arr(<<1, 2>>), MembersOwnTree),
                    Input(KnownMembers, Arr(<<1, 2>>), MembersOwnTree) }],
      \* an acyclic registry in which User, which has an initializer, is
      \* reached at two depths: as owner and as the auditor of the audit
      [name |-> "auditor",
       reg |-> [Registry({"Company", "User", "Audit"},
                         Options(<<ownerOption>>), NoOptions, FALSE, <<>>)
                    EXCEPT !.loader["Audit"] = TRUE,
                           !.options["Company"]["Audit"] =
                                Options(<<auditOption>>),
                           !.options["Audit"]["User"] =
                                Options(<<auditorOption>>),
                           !.init["User"] = TRUE,
                           !.initFields["User"] = TRUE,
                           !.initFieldNames["User"] = <<"rating">>],
       env |-> [db |-> AuditedDb, init |-> UserRatingInit],
       inputs |-> { Input(AuditedCompany, Arr(<<1>>), AuditorTree) }],
      \* members declared with an empty filter, the owner known in advance
      [name |-> "everyone",
       reg |-> Registry({"Company", "User"},
                        Options(<<ownerOption, everyoneOption>>),
                        NoOptions, FALSE, <<>>),
       env |-> [db |-> Db, init |-> NoInit],
       inputs |-> { Input(KnownOwner, Arr(<<1>>), BothTree),
                    Input(KnownOwner, Arr(<<1>>), IdTree) }],
      \* an initializer whose trigger field no relation uses
      [name |-> "initRating",
       reg |-> Registry({"Company", "User"}, Options(<<ownerOption>>),
                        NoOptions, TRUE, <<"rating">>),
       env |-> [db |-> Db, init |-> RatingInit],
       inputs |-> { Input(Companies, s, OwnerTree) :
                        s \in Sources(Companies) }
                  \cup { Input(NoIdCompanies, Arr(<<1, 2>>), OwnerTree) }] }

\* the services and the inputs of the run
env == (CHOOSE sc \in Scenarios : sc.name = scenario).env
inputs == (CHOOSE sc \in Scenarios : sc.name = scenario).inputs

\* ------------------------------------------------------ the environment

\* whether a row answers a loader filter: under every filter key the row's
\* field holds one of the requested values (for a list field, one of its
\* elements does)
rowMatches(row, filter) ==
    \A i \in 1..Len(filter) :
        IF IsArray(row[filter[i].key])
        THEN Range(Elems(row[filter[i].key])) \cap Range(filter[i].vals) # {}
        ELSE row[filter[i].key] \in Range(filter[i].vals)

\* the entities a loader resolves with
loaderRows(type, filter) ==
    LET Match(row) == rowMatches(row, filter)
    IN SelectSeq(env.db[type], Match)

\* the ids of the source items
sourceIds(hp, source) ==
    {KeyOf(hp[source.items[i]]["id"]) : i \in 1..Len(source.items)}

\* the map an initializer resolves with, as [ok, rows]: one row [id, set]
\* per source item the initializer knows, set the fields to merge
initResult(type, hp, source) ==
    LET Known(row) == row.id \in sourceIds(hp, source)
    IN [ok |-> TRUE, rows |-> SelectSeq(env.init[type], Known)]

\* ------------------------------------------------------------ the machine

NoOption == Option(FieldObj("", <<>>, ""), <<>>)

Call(kind, frame, type, h, filter, fields, option, state) ==
    [kind |-> kind, frame |-> frame, type |-> type, hash |-> h,
     filter |-> filter, fields |-> fields, option |-> option,
     state |-> state]

Frame(node, source, fields, parent, depth) ==
    [node |-> node, source |-> source, fields |-> fields, pc |-> "start",
     parent |-> parent, depth |-> depth, wait |-> {}, children |-> <<>>,
     kids |-> {}, err |-> 0]

\* the machine state with one more call; [st, call] names the new call
Issue(st, call) ==
    [st |-> [st EXCEPT !.calls = Append(@, call)],
     call |-> Len(st.calls) + 1]

\* [st, call] when nothing was called
NoCall(st) == [st |-> st, call |-> 0]

RECURSIVE assignAll(_, _)
\* Object.assign(item, partial), partial as entries [f, v]
assignAll(entity, set) ==
    IF set = <<>> THEN entity
    ELSE assignAll([entity EXCEPT ![Head(set).f] = Head(set).v], Tail(set))

\* the rows of the initializer's data under the key of id
rowsOf(initData, id) ==
    LET Mine(row) == row.id = KeyOf(id)
    IN SelectSeq(initData.rows, Mine)

\* the merge without the test of the item's id
mergeKnown(hp, item, rows) ==
    IF rows # <<>>
    THEN [hp EXCEPT ![item] = assignAll(@, rows[1].set)]
    ELSE hp

\* the body of requestInitializer's loop: an item without (truthy) id is
\* skipped, Object.assign(item, undefined) changes nothing
mergeItem(hp, item, rows) ==
    IF Truthy(hp[item]["id"]) /\ rows # <<>>
    THEN [hp EXCEPT ![item] = assignAll(@, rows[1].set)]
    ELSE hp

RECURSIVE mergeInit(_, _, _)
\* merges the initializer's data into the source items that have an id
mergeInit(hp, items, initData) ==
    IF items = <<>> \/ ~initData.ok THEN hp
    ELSE mergeInit(
            mergeItem(hp, Head(items),
                      rowsOf(initData, hp[Head(items)]["id"])),
            Tail(items), initData)

\* the memoized initializer results under hash h that are truthy
initMemo(entry, h) == {m \in entry.inits : m.hash = h /\ m.data.ok}

\* requestInitializer up to its await: [st, call], call the initializer
\* invocation it waits for, 0 when the memoized data was merged at once
requestInitializer(st, f) ==
    IF /\ st.cache[st.frames[f].node].has
       /\ initMemo(st.cache[st.frames[f].node],
                   hash(st.frames[f].node, "0", st.frames[f].fields)) # {}
    THEN NoCall([st EXCEPT !.heap =
            mergeInit(@, st.frames[f].source.items,
                (CHOOSE m \in initMemo(st.cache[st.frames[f].node],
                    hash(st.frames[f].node, "0", st.frames[f].fields)) :
                        TRUE).data)])
    ELSE Issue(st, Call("init", f, st.frames[f].node,
                    hash(st.frames[f].node, "0", st.frames[f].fields),
                    <<>>, st.frames[f].fields, NoOption, "pending"))

\* the request that maps nothing when it invokes no loader
loadOrSkip(st, f, option, dep, made) ==
    IF made.thrown \/ ~st.cache[dep].has
    THEN Issue(st, Call("throw", f, dep, <<>>, made.arg, <<>>, option,
                        "rejected"))
    ELSE IF /\ ~isEmptyArg(made.arg)
            /\ hash(dep, "1", made.arg) \notin st.cache[dep].calls
         THEN Issue(st, Call("loader", f, dep, hash(dep, "1", made.arg),
                             made.arg, st.cache[dep].fields, option,
                             "pending"))
         ELSE NoCall(st)

\* the memo entry written together with the check, before the await
loadOrMapAtOnce(st, f, option, dep, made) ==
    IF made.thrown \/ ~st.cache[dep].has
    THEN Issue(st, Call("throw", f, dep, <<>>, made.arg, <<>>, option,
                        "rejected"))
    ELSE IF /\ ~isEmptyArg(made.arg)
            /\ hash(dep, "1", made.arg) \notin st.cache[dep].calls
         THEN Issue([st EXCEPT !.cache[dep].calls =
                        @ \cup {hash(dep, "1", made.arg)}],
                    Call("loader", f, dep, hash(dep, "1", made.arg),
                         made.arg, st.cache[dep].fields, option, "pending"))
         ELSE NoCall([st EXCEPT !.heap =
                mapDependencyData(@, st.frames[f].source,
                                  st.cache[dep].data, option)])

\* requestLoader once the call arguments are made, up to its await
loadOrMap(st, f, option, dep, made) ==
    IF made.thrown \/ ~st.cache[dep].has
    THEN Issue(st, Call("throw", f, dep, <<>>, made.arg, <<>>, option,
                        "rejected"))
    ELSE IF /\ ~isEmptyArg(made.arg)
            /\ hash(dep, "1", made.arg) \notin st.cache[dep].calls
         THEN Issue(st, Call("loader", f, dep, hash(dep, "1", made.arg),
                             made.arg, st.cache[dep].fields, option,
                             "pending"))
         ELSE NoCall([st EXCEPT !.heap =
                mapDependencyData(@, st.frames[f].source,
                                  st.cache[dep].data, option)])

\* requestLoader up to its await: [st, call], call the invocation it waits
\* for, 0 when it mapped at once
requestLoader(st, f, option, dep) ==
    loadOrMap(st, f, option, dep,
        makeCallArgs(st.heap, st.frames[f].source, option.filter,
                     st.cache[dep]))

\* promises.push(r): acc is [st, wait, promises, children]
Pushed(acc, r) ==
    [acc EXCEPT !.st = r.st,
                !.wait = IF r.call = 0 THEN @ ELSE @ \cup {r.call},
                !.promises = @ + 1]

RECURSIVE requestLoaders(_, _, _, _)
\* one requestLoader per option, in order
requestLoaders(acc, f, dep, options) ==
    IF options = <<>> THEN acc
    ELSE requestLoaders(
            Pushed(acc, requestLoader(acc.st, f, Head(options), dep)),
            f, dep, Tail(options))

\* this.options.get(dep) || []
optionsOf(node, dep) ==
    IF reg.options[node][dep].has THEN reg.options[node][dep].opts ELSE <<>>

\* the body of the fan-out loop for a relation field to a registered type
dispatchField(acc, f, node, e, dep) ==
    IF ~reg.loader[dep]
    THEN [acc EXCEPT !.children = Append(@, [field |-> e.name, dep |-> dep])]
    ELSE requestLoaders(
            [acc EXCEPT !.children =
                Append(@, [field |-> e.name, dep |-> dep])],
            f, dep, optionsOf(node, dep))

RECURSIVE dispatch(_, _, _, _)
\* the fan-out loop of incrementalLoad over the requested fields
dispatch(acc, f, node, fields) ==
    IF fields = <<>> THEN acc
    ELSE dispatch(
            IF isDepField(reg, node, Head(fields))
            THEN dispatchField(acc, f, node, Head(fields),
                               depOf(node, Head(fields)))
            ELSE acc,
            f, node, Tail(fields))

RECURSIVE StartFrame(_, _)
RECURSIVE Level(_, _, _, _)
RECURSIVE Dispatched(_, _)
RECURSIVE Descend(_, _)
RECURSIVE startKids(_, _, _)
RECURSIVE Started(_, _, _)

\* the frame waits for the initializer alone
Blocked(r, f) ==
    [r.st EXCEPT !.frames[f].pc = "waitInit",
                 !.frames[f].wait = IF r.call = 0 THEN {} ELSE {r.call}]

\* the fan-out with the initializer's promise pushed first
Concurrent(r, f) == Level(r.st, f, IF r.call = 0 THEN {} ELSE {r.call}, 1)

\* incrementalLoad without the test of its source
StartUnguarded(st, f) ==
    IF ~reg.init[st.frames[f].node] THEN Level(st, f, {}, 0)
    ELSE IF waitForInit(reg, st.frames[f].node, st.frames[f].fields)
         THEN Blocked(requestInitializer(st, f), f)
         ELSE Concurrent(requestInitializer(st, f), f)

\* incrementalLoad from its first line to its first await
StartFrame(st, f) ==
    IF ~SrcTruthy(st.frames[f].source)
    THEN [st EXCEPT !.frames[f].pc = "done"]
    ELSE IF ~reg.init[st.frames[f].node] THEN Level(st, f, {}, 0)
    ELSE IF waitForInit(reg, st.frames[f].node, st.frames[f].fields)
         THEN Blocked(requestInitializer(st, f), f)
         ELSE Concurrent(requestInitializer(st, f), f)

\* the fan-out of a level and, when it made no promise, the descent
Level(st, f, wait, promises) ==
    Dispatched(
        dispatch([st |-> st, wait |-> wait, promises |-> promises,
                  children |-> <<>>],
                 f, st.frames[f].node, st.frames[f].fields),
        f)

Joining(d, f) ==
    [d.st EXCEPT !.frames[f].wait = d.wait,
                 !.frames[f].children = d.children,
                 !.frames[f].pc = "join"]

Dispatched(d, f) ==
    IF d.promises > 0 THEN Joining(d, f) ELSE Descend(Joining(d, f), f)

\* the recursive load of the children of a level
Descend(st, f) ==
    IF st.frames[f].children = <<>>
    THEN [st EXCEPT !.frames[f].pc = "done"]
    ELSE IF st.frames[f].depth >= MaxDepth
         THEN [st EXCEPT !.frames[f].pc = "capped"]
         ELSE Started(startKids(st, f, st.frames[f].children), f, st)

Started(st1, f, st) ==
    IF st1.frames[f].pc = "failed" THEN st1
    ELSE [st1 EXCEPT !.frames[f].pc = "joinKids"]

\* the machine state with the frame of a child of f added
WithKid(st, f, child) ==
    [st EXCEPT
        !.frames = Append(@, Frame(child.dep,
                        childSource(st.heap, st.frames[f].source,
                                    child.field),
                        st.cache[child.dep].fields, f,
                        st.frames[f].depth + 1)),
        !.frames[f].kids = @ \cup {Len(st.frames) + 1}]

\* reading .fields of a cache entry that does not exist throws
NoEntry(st, f, child) ==
    [st EXCEPT
        !.calls = Append(@, Call("throw", f, child.dep, <<>>, <<>>, <<>>,
                                 NoOption, "rejected")),
        !.frames[f].pc = "failed",
        !.frames[f].err = Len(st.calls) + 1]

startKids(st, f, children) ==
    IF children = <<>> THEN st
    ELSE IF ~st.cache[Head(children).dep].has
         THEN NoEntry(st, f, Head(children))
         ELSE startKids(
                StartFrame(WithKid(st, f, Head(children)),
                           Len(st.frames) + 1),
                f, Tail(children))

\* ---------------------------------------------------------------- actions

St == [heap |-> heap, cache |-> cache, frames |-> frames, calls |-> calls]

Becomes(st) ==
    /\ heap' = st.heap
    /\ cache' = st.cache
    /\ frames' = st.frames
    /\ calls' = st.calls

Pending(c) == c \in 1..Len(calls) /\ calls[c].state = "pending"
Resolved(c) == calls[c].state = "resolved"
Rejected(c) == calls[c].state = "rejected"

\* load() after the pre-scan: the incremental load of the root level
Scanned(inp, fields, pre) ==
    /\ Becomes(StartFrame(
            [heap |-> inp.heap, cache |-> pre.cache,
             frames |-> <<Frame(inp.root, inp.source, fields, 0, 1)>>,
             calls |-> <<>>],
            1))
    /\ scan' = pre.deepest

\* the Map of another call in place of a new one
sharedCache(other) == other

\* cache: ResolutionCache = new Map(): the default is evaluated by each
\* call of buildResolutionCache that gets no cache, whatever Map another
\* call holds
newCache(other) == [t \in TypeNames |-> EmptyEntry]

\* a fields argument never counted as missing
fieldsIgnored(fields) == FALSE

\* !fields: the fields argument of load() is missing
noFields(fields) == ~fields.present

\* load(source, context, fields) on the node of inp.root, up to its first
\* await
Load(inp) ==
    /\ result.status = "idle"
    /\ IF noFields(inp.fields)
       THEN /\ request' = [root |-> inp.root, source |-> inp.source,
                           heap |-> inp.heap, given |-> inp.fields,
                           fields |-> <<>>]
            /\ heap' = inp.heap
            /\ result' = [status |-> "resolved", err |-> 0]
            /\ UNCHANGED <<cache, frames, calls, scan>>
       ELSE /\ request' = [root |-> inp.root, source |-> inp.source,
                           heap |-> inp.heap, given |-> inp.fields,
                           fields |-> ensureIds(inp.fields.tree)]
            /\ Scanned(inp, ensureIds(inp.fields.tree),
                    buildResolutionCache(reg, inp.heap, inp.root,
                        ensureIds(inp.fields.tree), inp.source, 1,
                        [cache |-> newCache(parked.cache), deepest |-> 0]))
            /\ result' = [status |-> "running", err |-> 0]
    /\ UNCHANGED <<setup, parked, scenario, reg>>

\* the loader's rows indexed by id, as addresses of the new objects: a
\* later row replaces an earlier one of the same id
indexRows(rows, base) ==
    [id \in {KeyOf(rows[i]["id"]) : i \in 1..Len(rows)} |->
        base + CHOOSE i \in 1..Len(rows) :
                    /\ KeyOf(rows[i]["id"]) = id
                    /\ \A j \in 1..Len(rows) :
                          KeyOf(rows[j]["id"]) = id => j <= i]

\* the loaded map in place of the entry's data
replaceData(data, loaded) == loaded

\* Object.assign(depCache.data, data): the loaded entities are added to the
\* entry's data, a loaded entity replacing the known one of the same id
mergeData(data, loaded) == loaded @@ data

\* requestLoader after its await: the rows are indexed, memoized under the
\* call's hash, merged into the entry's data and mapped onto the source
Loaded(call, rows) ==
    /\ cache' = [cache EXCEPT
            ![call.type].calls = @ \cup {call.hash},
            ![call.type].data = mergeData(@, indexRows(rows, Len(heap)))]
    /\ heap' = mapDependencyData(heap \o rows, frames[call.frame].source,
                    mergeData(cache[call.type].data,
                              indexRows(rows, Len(heap))),
                    call.option)

\* a loader call resolves
LoaderResolve(c) ==
    /\ Pending(c)
    /\ calls[c].kind = "loader"
    /\ Loaded(calls[c], loaderRows(calls[c].type, calls[c].filter))
    /\ calls' = [calls EXCEPT ![c].state = "resolved"]
    /\ UNCHANGED <<setup, parked, scenario, reg, request, frames, scan, result>>

\* requestInitializer after its await: the data is memoized under the
\* call's hash and merged into the source items
Initialized(call, initData) ==
    /\ cache' = IF cache[call.type].has
                THEN [cache EXCEPT ![call.type].inits =
                        {m \in @ : m.hash # call.hash}
                        \cup {[hash |-> call.hash, data |-> initData]}]
                ELSE cache
    /\ heap' = mergeInit(heap, frames[call.frame].source.items, initData)

\* an initializer call resolves
InitResolve(c) ==
    /\ Pending(c)
    /\ calls[c].kind = "init"
    /\ Initialized(calls[c],
            initResult(calls[c].type, heap, frames[calls[c].frame].source))
    /\ calls' = [calls EXCEPT ![c].state = "resolved"]
    /\ UNCHANGED <<setup, parked, scenario, reg, request, frames, scan, result>>

\* a loader or initializer call rejects; the error is named by the call
Reject(c) ==
    /\ Pending(c)
    /\ Cardinality({d \in 1..Len(calls) :
            calls[d].kind # "throw" /\ Rejected(d)}) < MaxFail
    /\ calls' = [calls EXCEPT ![c].state = "rejected"]
    /\ UNCHANGED <<setup, parked, scenario, reg, request, heap, cache, frames, scan,
                   result>>

\* the blocking initializer has resolved: the level fans out
AfterInit(f) ==
    /\ f \in 1..Len(frames)
    /\ frames[f].pc = "waitInit"
    /\ \A c \in frames[f].wait : Resolved(c)
    /\ Becomes(Level(St, f, {}, 0))
    /\ UNCHANGED <<setup, parked, scenario, reg, request, scan, result>>

\* every call of the level has settled: the level descends
JoinSettled(f) ==
    /\ f \in 1..Len(frames)
    /\ frames[f].pc = "join"
    /\ \A c \in frames[f].wait : ~Pending(c)
    /\ Becomes(Descend(St, f))
    /\ UNCHANGED <<setup, parked, scenario, reg, request, scan, result>>

\* Promise.all of the level's calls resolves: the level descends
JoinLevel(f) ==
    /\ f \in 1..Len(frames)
    /\ frames[f].pc = "join"
    /\ \A c \in frames[f].wait : Resolved(c)
    /\ Becomes(Descend(St, f))
    /\ UNCHANGED <<setup, parked, scenario, reg, request, scan, result>>

\* the awaited initializer or Promise.all of the level's calls rejects
FailLevel(f) ==
    /\ f \in 1..Len(frames)
    /\ frames[f].pc \in {"waitInit", "join"}
    /\ \E c \in frames[f].wait :
        /\ Rejected(c)
        /\ frames' = [frames EXCEPT ![f].pc = "failed", ![f].err = c]
    /\ UNCHANGED <<setup, parked, scenario, reg, request, heap, cache, calls, scan,
                   result>>

\* the level returns with the first child that is done
JoinFirstKid(f) ==
    /\ f \in 1..Len(frames)
    /\ frames[f].pc = "joinKids"
    /\ \E k \in frames[f].kids : frames[k].pc = "done"
    /\ frames' = [frames EXCEPT ![f].pc = "done"]
    /\ UNCHANGED <<setup, parked, scenario, reg, request, heap, cache, calls, scan,
                   result>>

\* Promise.all of the children's loads resolves: the level returns
JoinKids(f) ==
    /\ f \in 1..Len(frames)
    /\ frames[f].pc = "joinKids"
    /\ \A k \in frames[f].kids : frames[k].pc = "done"
    /\ frames' = [frames EXCEPT ![f].pc = "done"]
    /\ UNCHANGED <<setup, parked, scenario, reg, request, heap, cache, calls, scan,
                   result>>

\* Promise.all of the children's loads rejects
FailKids(f) ==
    /\ f \in 1..Len(frames)
    /\ frames[f].pc = "joinKids"
    /\ \E k \in frames[f].kids :
        /\ frames[k].pc = "failed"
        /\ frames' = [frames EXCEPT ![f].pc = "failed",
                                    ![f].err = frames[k].err]
    /\ UNCHANGED <<setup, parked, scenario, reg, request, heap, cache, calls, scan,
                   result>>

\* the promise of load() settles when the root level failed, and not
\* otherwise
SettleFailed ==
    /\ result.status = "running"
    /\ frames[1].pc = "failed"
    /\ result' = [status |-> "rejected", err |-> frames[1].err]
    /\ UNCHANGED <<setup, parked, scenario, reg, request, heap, cache, frames, calls,
                   scan>>

\* the promise of load() settles with the outcome of the root level
Settle ==
    /\ result.status = "running"
    /\ frames[1].pc \in {"done", "failed"}
    /\ result' = [status |-> IF frames[1].pc = "done" THEN "resolved"
                             ELSE "rejected",
                  err |-> frames[1].err]
    /\ UNCHANGED <<setup, parked, scenario, reg, request, heap, cache, frames, calls,
                   scan>>

\* ------------------------------------------------------------ specification

\* ------------------------------------------------------------------ setup

\* the loaders and initializers the application may define
Routines == {1, 2}

\* new GraphQLDependency(type): a node without loader and initializer,
\* its options an empty Map (keyed by the child's node, one per type)
NewNode(type) ==
    [type |-> type, loader |-> 0, init |-> 0,
     options |-> [t \in TypeNames |-> NoOptions]]

\* before the first create(): deps is an empty Map (0: no node)
NoSetup ==
    [nodes |-> <<>>, deps |-> [t \in TypeNames |-> 0], refs |-> <<>>]

\* a node constructed by every call
createAlways(st, type) ==
    [nodes |-> Append(st.nodes, NewNode(type)),
     deps |-> [st.deps EXCEPT ![type] = Len(st.nodes) + 1],
     refs |-> Append(st.refs, [type |-> type, node |-> Len(st.nodes) + 1])]

\* create(type): the node deps holds for the type, constructed and
\* registered by the first call; the returned reference is recorded
create(st, type) ==
    IF st.deps[type] # 0
    THEN [st EXCEPT !.refs = Append(@, [type |-> type, node |-> st.deps[type]])]
    ELSE [nodes |-> Append(st.nodes, NewNode(type)),
          deps |-> [st.deps EXCEPT ![type] = Len(st.nodes) + 1],
          refs |-> Append(st.refs,
                          [type |-> type, node |-> Len(st.nodes) + 1])]

\* Dependency(type) / GraphQLDependency.create(type)
Create(type) ==
    /\ Len(setup.refs) < MaxRefs
    /\ setup' = create(setup, type)
    /\ UNCHANGED <<scenario, reg, request, heap, cache, frames, calls, scan,
                   result, parked>>

\* defineLoader(loader) on the r-th reference create() returned
DefineLoader(r, loader) ==
    /\ setup' = [setup EXCEPT !.nodes[setup.refs[r].node].loader = loader]
    /\ UNCHANGED <<scenario, reg, request, heap, cache, frames, calls, scan,
                   result, parked>>

\* defineInitializer(initializer) on the r-th reference create() returned
DefineInitializer(r, initializer) ==
    /\ setup' = [setup EXCEPT !.nodes[setup.refs[r].node].init = initializer]
    /\ UNCHANGED <<scenario, reg, request, heap, cache, frames, calls, scan,
                   result, parked>>

\* the option providers the application may hand to require()
Providers == { <<1>>, <<2, 1>> }

\* the providers given added to those the node had for the child
requireMore(st, r, child, providers) ==
    [[create(st, child) EXCEPT !.refs = st.refs]
        EXCEPT !.nodes[st.refs[r].node].options[child] =
                    Options(@.opts \o providers)]

\* this.options.set(Dependency(child), options): the child's node is the
\* one create() gives, made if there was none, and is the key; the
\* providers are stored as given
require(st, r, child, providers) ==
    [[create(st, child) EXCEPT !.refs = st.refs]
        EXCEPT !.nodes[st.refs[r].node].options[child] = Options(providers)]

\* require(child, ...providers) on the r-th reference create() returned
Require(r, child, providers) ==
    /\ setup' = require(setup, r, child, providers)
    /\ UNCHANGED <<scenario, reg, request, heap, cache, frames, calls, scan,
                   result, parked>>

\* a load() call not made yet
NotCalled ==
    [request |-> [root |-> "Company", source |-> NoSource, heap |-> <<>>,
                  given |-> NoFields, fields |-> <<>>],
     heap |-> <<>>,
     cache |-> [t \in TypeNames |-> EmptyEntry],
     frames |-> <<>>,
     calls |-> <<>>,
     scan |-> 0,
     result |-> [status |-> "idle", err |-> 0]]

\* the event loop turns to the other load() call: calls interleave at
\* their awaits, and each keeps its arguments, its cache and its promises
Switch ==
    /\ result.status # "idle"
    /\ parked' = [request |-> request, heap |-> heap, cache |-> cache,
                  frames |-> frames, calls |-> calls, scan |-> scan,
                  result |-> result]
    /\ request' = parked.request
    /\ heap' = parked.heap
    /\ cache' = parked.cache
    /\ frames' = parked.frames
    /\ calls' = parked.calls
    /\ scan' = parked.scan
    /\ result' = parked.result
    /\ UNCHANGED <<setup, scenario, reg>>

Init ==
    /\ \E sc \in Scenarios :
        /\ scenario = sc.name
        /\ reg = sc.reg
    /\ request = NotCalled.request
    /\ heap = NotCalled.heap
    /\ cache = NotCalled.cache
    /\ frames = NotCalled.frames
    /\ calls = NotCalled.calls
    /\ scan = NotCalled.scan
    /\ result = NotCalled.result
    /\ parked = NotCalled
    /\ setup = NoSetup

Next ==
    \/ \E inp \in inputs : Load(inp)
    \/ \E c \in 1..Len(calls) : LoaderResolve(c)
    \/ \E c \in 1..Len(calls) : InitResolve(c)
    \/ \E c \in 1..Len(calls) : Reject(c)
    \/ \E f \in 1..Len(frames) : AfterInit(f)
    \/ \E f \in 1..Len(frames) : JoinLevel(f)
    \/ \E f \in 1..Len(frames) : FailLevel(f)
    \/ \E f \in 1..Len(frames) : JoinKids(f)
    \/ \E f \in 1..Len(frames) : FailKids(f)
    \/ Settle

Spec == Init /\ [][Next]_vars

\* two load() calls of one resolver, interleaved
InitLoads == Init /\ scenario = "sameOwner"

NextLoads == Next \/ Switch

SpecLoads == InitLoads /\ [][NextLoads]_vars

\* load() with loaders and initializers that resolve: every call that is
\* pending resolves in the end and every continuation that can run does
NextResolving ==
    \/ \E inp \in inputs : Load(inp)
    \/ \E c \in 1..Len(calls) : LoaderResolve(c)
    \/ \E c \in 1..Len(calls) : InitResolve(c)
    \/ \E f \in 1..Len(frames) : AfterInit(f)
    \/ \E f \in 1..Len(frames) : JoinLevel(f)
    \/ \E f \in 1..Len(frames) : JoinKids(f)
    \/ Settle

\* a level whose Promise.all has resolved and that can go on
JoinReady ==
    \E f \in 1..Len(frames) :
        frames[f].pc = "join" /\ \A c \in frames[f].wait : Resolved(c)

\* a level whose awaited initializer has resolved and that can go on
InitReady ==
    \E f \in 1..Len(frames) :
        frames[f].pc = "waitInit" /\ \A c \in frames[f].wait : Resolved(c)

\* weak fairness of every step but Load: a pending call resolves, and the
\* continuation of a settled await is run by the event loop. For
\* JoinLevel and AfterInit weak fairness is written out, with the guard
\* of the action, which is when it is enabled, in place of ENABLED
SpecResolving ==
    /\ Init
    /\ [][NextResolving]_vars
    /\ WF_vars(\E c \in 1..Len(calls) : LoaderResolve(c))
    /\ WF_vars(\E c \in 1..Len(calls) : InitResolve(c))
    /\ \/ []<>(~InitReady)
       \/ []<><<\E f \in 1..Len(frames) : AfterInit(f)>>_vars
    /\ \/ []<>(~JoinReady)
       \/ []<><<\E f \in 1..Len(frames) : JoinLevel(f)>>_vars
    /\ WF_vars(\E f \in 1..Len(frames) : JoinKids(f))
    /\ WF_vars(Settle)

\* a level as the pre-scan leaves it, before incrementalLoad runs on it
Prepare(inp) ==
    /\ frames = <<>>
    /\ result.status = "idle"
    /\ ~noFields(inp.fields)
    /\ request' = [root |-> inp.root, source |-> inp.source,
                   heap |-> inp.heap, given |-> inp.fields,
                   fields |-> ensureIds(inp.fields.tree)]
    /\ Becomes([heap |-> inp.heap,
                cache |-> buildResolutionCache(reg, inp.heap, inp.root,
                            ensureIds(inp.fields.tree), inp.source, 1,
                            [cache |-> newCache(parked.cache),
                             deepest |-> 0]).cache,
                frames |-> <<Frame(inp.root, inp.source,
                                   ensureIds(inp.fields.tree), 0, 1)>>,
                calls |-> <<>>])
    /\ UNCHANGED <<setup, parked, scenario, reg, scan, result>>

\* the promise requestLoader returns when it is called on the level: up
\* to its first await the call ran, and it is rejected if that threw
Requested(r) ==
    /\ Becomes(r.st)
    /\ result' = IF r.call # 0 /\ r.st.calls[r.call].kind = "throw"
                 THEN [status |-> "rejected", err |-> r.call]
                 ELSE [status |-> "running", err |-> 0]

\* requestLoader(source, context, option, dep, cache) called on the level
RequestLoader(dep, o) ==
    /\ frames # <<>>
    /\ result.status = "idle"
    /\ o \in 1..Len(optionsOf(frames[1].node, dep))
    /\ Requested(requestLoader(St, 1, optionsOf(frames[1].node, dep)[o], dep))
    /\ UNCHANGED <<setup, parked, scenario, reg, request, scan>>

\* requestLoader called by itself on a level
NextRequest ==
    \/ \E inp \in inputs : Prepare(inp)
    \/ \E dep \in TypeNames : \E o \in 1..2 : RequestLoader(dep, o)
    \/ \E c \in 1..Len(calls) : LoaderResolve(c)

SpecRequest == Init /\ [][NextRequest]_vars

\* the application builds the registry
InitSetup == Init /\ scenario = "owner"

NextSetup ==
    \/ \E type \in TypeNames : Create(type)
    \/ \E r \in 1..Len(setup.refs) : \E l \in Routines : DefineLoader(r, l)
    \/ \E r \in 1..Len(setup.refs) : \E i \in Routines :
            DefineInitializer(r, i)

SpecSetup == InitSetup /\ [][NextSetup]_vars

\* the application configures the node of Company
NextRequire ==
    \/ Create("Company")
    \/ \E r \in 1..Len(setup.refs) : \E l \in Routines : DefineLoader(r, l)
    \/ \E r \in 1..Len(setup.refs) : \E i \in Routines :
            DefineInitializer(r, i)
    \/ \E r \in 1..Len(setup.refs) : \E child \in TypeNames :
            \E providers \in Providers : Require(r, child, providers)

SpecRequire == InitSetup /\ [][NextRequire]_vars

\* ------------------------------------------------------------------ claims

\* the loader invocations of a type
loaderCalls(type) ==
    {c \in 1..Len(calls) : calls[c].kind = "loader" /\ calls[c].type = type}

\* the values the items of the request's source carried under a field when
\* load() was called
sourceValues(name) ==
    {request.heap[request.source.items[i]][name] :
        i \in 1..Len(request.source.items)}

\* load() has resolved a request for owner on a node without initializer
\* whose one relation to User is owner with the filter {id: ownerId}, no
\* source item having its owner in advance
C1_Case ==
    /\ result.status = "resolved"
    /\ request.given = Fields(OwnerTree)
    /\ ~reg.init[request.root]
    /\ reg.options[request.root]["User"] = Options(<<ownerOption>>)
    /\ sourceValues("owner") = {Nil}

\* the one loader invocation of C1 got {id: the distinct ownerId values}
C1_Filter(c) ==
    /\ Len(calls[c].filter) = 1
    /\ calls[c].filter[1].key = "id"
    /\ Range(calls[c].filter[1].vals) = sourceValues("ownerId")
    /\ Len(calls[c].filter[1].vals) = Cardinality(sourceValues("ownerId"))

\* C1: for a single-valued relation with the filter {id: ownerId} and no
\* child known in advance, when load() resolves every parent whose ownerId
\* is the id of an entity the User loader returned has that entity as its
\* owner, and the User loader was invoked exactly once, with the distinct
\* ownerId values of the parents as its id list.
C1_SingleOwnerLoaded ==
    C1_Case =>
        /\ \A i \in 1..Len(request.source.items) :
              \A id \in DOMAIN cache["User"].data :
                heap[request.source.items[i]]["ownerId"]
                        = heap[cache["User"].data[id]]["id"]
                    => heap[request.source.items[i]]["owner"]
                        = Ref(cache["User"].data[id])
        /\ Cardinality(loaderCalls("User")) = 1
        /\ \A c \in loaderCalls("User") : C1_Filter(c)

\* load() resolved for two parents that share their owner, and both got it
C1_Witness ==
    /\ C1_Case
    /\ Len(request.source.items) = 2
    /\ Cardinality(sourceValues("ownerId")) = 1
    /\ \A i \in 1..2 : heap[request.source.items[i]]["owner"].k = "ref"
\* C2: within one load() the loader of a type is invoked at most once per
\* call signature (type, loader, filter arguments), whatever relations or
\* sibling request fields produce the signature.
C2_OncePerSignature ==
    \A c \in 1..Len(calls) : \A d \in 1..Len(calls) :
        /\ calls[c].kind = "loader"
        /\ calls[d].kind = "loader"
        /\ calls[c].hash = calls[d].hash
        => c = d

\* the registry holds two types that require each other
MutuallyRequiring ==
    /\ reg.options["Company"]["User"].has
    /\ reg.options["User"]["Company"].has

\* C3: with two mutually-requiring types and a finite request tree the
\* load makes finitely many recursive descents: the recursion never reaches
\* level MaxDepth, which lies beyond the depth of every request tree, with
\* children still to descend into.
C3_CyclicLoadTerminates ==
    MutuallyRequiring =>
        \A f \in 1..Len(frames) : frames[f].pc # "capped"

\* C4: a relation whose filter arguments are all empty lists, every
\* identifier it needs being in the child's entity map, does not invoke the
\* child's loader: every loader invocation carries a value under some key.
C4_KnownIdsSkipLoader ==
    \A c \in 1..Len(calls) :
        calls[c].kind = "loader" =>
            \E i \in 1..Len(calls[c].filter) : calls[c].filter[i].vals # <<>>

\* the initializer of a type has resolved
initResolved(type) ==
    \E i \in 1..Len(calls) :
        calls[i].kind = "init" /\ calls[i].type = type /\ Resolved(i)

\* the node a call was issued at
nodeOf(c) == frames[calls[c].frame].node

\* C5: an initializer defined without trigger fields is blocking: a
\* relation loader call of a level of its node is issued only when the
\* initializer has resolved.
C5_NoTriggerFieldsBlocks ==
    \A c \in 1..Len(calls) :
        /\ calls[c].kind = "loader"
        /\ reg.init[nodeOf(c)]
        /\ reg.initFieldNames[nodeOf(c)] = <<>>
        => initResolved(nodeOf(c))

\* a requested relation of the node has a descriptor whose filter takes
\* its values from a trigger field of the node's initializer
feedsFilter(node, fields) ==
    \E i \in 1..Len(fields) :
        /\ isDepField(reg, node, fields[i])
        /\ reg.options[node][depOf(node, fields[i])].has
        /\ usesInitField(reg, node, reg.options[node][depOf(node, fields[i])])

\* the values the source items of a call's level hold under a field
levelValues(c, name) ==
    {heap[frames[calls[c].frame].source.items[i]][name] :
        i \in 1..Len(frames[calls[c].frame].source.items)}

\* C6: when a trigger field of the node's initializer feeds the filter of
\* a requested relation, the relation's loader call is issued only after
\* the initializer has resolved, with the values the initializer merged
\* into the source entities as its filter arguments.
C6_TriggerFieldBlocks ==
    \A c \in 1..Len(calls) :
        /\ calls[c].kind = "loader"
        /\ reg.init[nodeOf(c)]
        /\ reg.initFieldNames[nodeOf(c)] # <<>>
        /\ feedsFilter(nodeOf(c), frames[calls[c].frame].fields)
        => /\ initResolved(nodeOf(c))
           /\ \A j \in 1..Len(calls[c].filter) :
                Range(calls[c].filter[j].vals)
                    \subseteq levelValues(c, calls[c].option.filter[j].src)

\* the level f of a node whose initializer has trigger fields, none of
\* them feeding the filter of a requested relation
C7_Case(f) ==
    /\ reg.init[frames[f].node]
    /\ reg.initFieldNames[frames[f].node] # <<>>
    /\ ~feedsFilter(frames[f].node, frames[f].fields)

\* the initializer invocation of level f, issued before call c and joined
\* with it
C7_Joined(f, c) ==
    /\ c \in frames[f].wait
    /\ \E i \in frames[f].wait :
        calls[i].kind = "init" /\ calls[i].frame = f /\ i < c

\* C7: when no trigger field of the initializer feeds a requested
\* relation, the level never waits for the initializer alone: the
\* initializer and the relation loaders are issued together and joined in
\* one set.
C7_InitConcurrent ==
    \A f \in 1..Len(frames) :
        C7_Case(f) =>
            /\ frames[f].pc # "waitInit"
            /\ \A c \in 1..Len(calls) :
                (calls[c].kind = "loader" /\ calls[c].frame = f)
                    => C7_Joined(f, c)

\* the initializer and a relation loader of one level are both in flight
C7_Witness ==
    \E f \in 1..Len(frames) :
        /\ C7_Case(f)
        /\ \E i \in frames[f].wait : \E c \in frames[f].wait :
            /\ calls[i].kind = "init" /\ Pending(i)
            /\ calls[c].kind = "loader" /\ Pending(c)

\* C8: the pre-scan ends for every request tree, cyclic type graphs
\* included, and its recursion depth is at most the depth of the tree.
C8_ScanWithinTree ==
    (result.status # "idle" /\ request.given.present) =>
        /\ scan >= 1
        /\ scan <= TreeDepth(request.fields)

\* the pre-scan went through a tree of three levels over two types that
\* require each other
C8_Witness ==
    /\ MutuallyRequiring
    /\ request.given = Fields(CycleTree)
    /\ scan = 3

\* a call of the set level f joins has rejected
levelFailed(f) == \E c \in frames[f].wait : Rejected(c)

\* C9: when a loader or initializer call rejects, load() rejects with the
\* error of a rejected call itself, and no descent into children is made
\* from a level whose joined set holds a rejected call.
C9_RejectionPropagates ==
    /\ result.status = "rejected" =>
        result.err \in 1..Len(calls) /\ Rejected(result.err)
    /\ result.status = "resolved" =>
        \A f \in 1..Len(frames) : ~levelFailed(f)
    /\ \A f \in 1..Len(frames) : levelFailed(f) => frames[f].kids = {}

\* load() rejected with the error of a rejected loader call of a level
\* that requested children and started none
C9_Witness ==
    /\ result.status = "rejected"
    /\ result.err \in loaderCalls("User")
    /\ Rejected(result.err)
    /\ frames[1].children # <<>>
    /\ frames[1].kids = {}

\* the ids of the entities a list field of an item refers to
listedIds(item, name) ==
    {heap[heap[item][name].s[i]]["id"] :
        i \in 1..Len(heap[item][name].s)}

\* the ids of the loaded entities of a type whose list field holds the
\* id of item
includingIds(type, name, item) ==
    {heap[cache[type].data[id]]["id"] :
        id \in {k \in DOMAIN cache[type].data :
            heap[item]["id"]
                \in Range(Elems(heap[cache[type].data[k]][name]))}}

\* C10: for the list-valued relation members with the filter
\* {relatedCompanyIds: id}, after load() each parent's members are exactly
\* the loaded users whose relatedCompanyIds list includes the parent's id,
\* users whose list holds several ids included.
C10_ListIncludesAll ==
    (result.status = "resolved" /\ request.given = Fields(MembersTree)) =>
        \A i \in 1..Len(request.source.items) :
            listedIds(request.source.items[i], "members")
                = includingIds("User", "relatedCompanyIds",
                               request.source.items[i])
\* the entities of data the mapper matches with item under an option
matched(hp, data, item, option) ==
    {data[id] : id \in {k \in DOMAIN data :
                    dataMatcher(hp, data, item, option.filter, k)}}

\* what the mapper run of call c did to the destination field of item: nodes
\* are the entities that match item after the run
C11_Mapped(c, item, nodes) ==
    IF isListField(calls[c].option.as)
    THEN /\ heap'[item][calls[c].option.as.name].k = "refs"
         /\ Range(heap'[item][calls[c].option.as.name].s) = nodes
         /\ Len(heap'[item][calls[c].option.as.name].s) = Cardinality(nodes)
    ELSE IF nodes = {}
         THEN heap'[item][calls[c].option.as.name]
                = heap[item][calls[c].option.as.name]
         ELSE /\ heap'[item][calls[c].option.as.name].k = "ref"
              /\ heap'[item][calls[c].option.as.name].n \in nodes

\* C11: the mapper run that follows a loader call gives every source
\* instance of a list-valued relation the full set of matching entities,
\* the empty list included, and every source instance of a single-valued
\* relation one matching entity when there is one, leaving the destination
\* field as it was otherwise.
C11_MapperAssigns ==
    [][\A c \in 1..Len(calls) :
        (calls[c].kind = "loader" /\ Pending(c)
            /\ calls'[c].state = "resolved") =>
            \A i \in 1..Len(frames[calls[c].frame].source.items) :
                C11_Mapped(c, frames[calls[c].frame].source.items[i],
                    matched(heap', cache'[calls[c].type].data,
                            frames[calls[c].frame].source.items[i],
                            calls[c].option))]_vars

\* the loader of a single-valued relation resolved with no match for a
\* parent that held an owner, and the parent still holds it
C11_Witness ==
    /\ request.heap = StaleOwner
    /\ \E c \in loaderCalls("User") : Resolved(c)
    /\ matched(heap, cache["User"].data, 1, ownerOption) = {}
    /\ heap[1]["owner"] = Ref(2)
\* whether the request asks the root for the destination field of an
\* option
requested(option) ==
    \E i \in 1..Len(request.fields) :
        request.fields[i].t /\ request.fields[i].name = option.as.name

\* the requested relations of the root to a type
requestedOptions(dep) ==
    {optionsOf(request.root, dep)[i] :
        i \in {j \in 1..Len(optionsOf(request.root, dep)) :
                    requested(optionsOf(request.root, dep)[j])}}

\* a root source item has, on the destination field of option, an entity
\* of data that matches it when there is one
C12_MappedFromCache(item, dep, option) ==
    matched(heap, cache[dep].data, item, option) # {} =>
        /\ heap[item][option.as.name].k = "ref"
        /\ heap[item][option.as.name].n
                \in matched(heap, cache[dep].data, item, option)

\* C12: a requested relation to a registered type without loader makes
\* load() neither fail nor fetch, and is still mapped: when load() has
\* resolved, the known entities of the type that match are on the
\* destination field of the source instances.
C12_NoLoaderStillMaps ==
    \A dep \in reg.deps :
        (~reg.loader[dep] /\ requestedOptions(dep) # {}) =>
            /\ result.status # "rejected"
            /\ \A c \in 1..Len(calls) : calls[c].type # dep
            /\ result.status = "resolved" =>
                \A i \in 1..Len(request.source.items) :
                    \A option \in requestedOptions(dep) :
                        C12_MappedFromCache(request.source.items[i], dep,
                                            option)
\* the source of level f is falsy or an empty list
emptySource(f) ==
    ~SrcTruthy(frames[f].source) \/ frames[f].source.items = <<>>

\* C13: a level whose source is falsy or an empty list is a no-op: no
\* loader and no initializer is invoked for it, nothing below it is
\* processed, and a load() whose source is such leaves every entity as it
\* was.
C13_EmptySourceIsNoOp ==
    \A f \in 1..Len(frames) :
        emptySource(f) =>
            /\ \A c \in 1..Len(calls) : calls[c].frame # f
            /\ frames[f].kids = {}
            /\ f = 1 => heap = request.heap
\* C14: load() without a field tree resolves with the source as it was
\* and does nothing: it builds no resolution cache, invokes no loader and no
\* initializer, starts no level and writes no entity field.
C14_AbsentFieldsNoWork ==
    (result.status # "idle" /\ ~request.given.present) =>
        /\ result.status = "resolved"
        /\ cache = [t \in TypeNames |-> EmptyEntry]
        /\ calls = <<>>
        /\ frames = <<>>
        /\ scan = 0
        /\ heap = request.heap

\* load() was called on a company without a field tree and has resolved
C14_Witness ==
    /\ result.status = "resolved"
    /\ ~request.given.present
    /\ request.source = Arr(<<1>>)
    /\ heap = Companies
\* an initializer invocation made for a level that has entities
initCall(c) ==
    calls[c].kind = "init" /\ ~emptySource(calls[c].frame)

\* C15: within one load() the initializer of a node is invoked at most
\* once per call signature (type, initializer, requested fields), also
\* when sibling branches of one level reach the node; stated for the
\* levels that have entities.
C15_InitOncePerSignature ==
    \A c \in 1..Len(calls) : \A d \in 1..Len(calls) :
        (initCall(c) /\ initCall(d) /\ calls[c].hash = calls[d].hash)
            => c = d
\* the names of the entries of a field map
names(fields) == {fields[i].name : i \in 1..Len(fields)}

RECURSIVE namesAt(_, _, _)
\* the field names the request selects at the positions of type T, at and
\* below the position of type node whose selection is fields; positions
\* are reached through relation fields to registered types
namesAt(node, fields, T) ==
    (IF node = T THEN names(fields) ELSE {})
    \cup UNION {namesAt(depOf(node, fields[i]), fields[i].sub, T) :
                i \in {j \in 1..Len(fields) :
                            isDepField(reg, node, fields[j])}}

\* C16: every invocation of the loader of a type T gets as requested
\* fields the merged fields of T's cache entry, and these hold every field
\* name the request selects at any position of type T.
C16_LoaderGetsMergedFields ==
    \A c \in 1..Len(calls) :
        calls[c].kind = "loader" =>
            /\ calls[c].fields = cache[calls[c].type].fields
            /\ namesAt(request.root, request.fields, calls[c].type)
                    \subseteq names(calls[c].fields)

\* the Company loader, invoked for ownerOf with the selection {id}, got
\* the field owner that the request selects at the root
C16_Witness ==
    /\ request.given = Fields(CycleTree)
    /\ \E c \in loaderCalls("Company") :
        /\ calls[c].option = ownerOfOption
        /\ "owner" \in names(calls[c].fields)
RECURSIVE entriesAt(_, _, _)
\* the entries the request selects at the positions of type T that the
\* pre-scan merges into T's entry: the root when it has a source, and every
\* position reached through a relation field to a registered type
entriesAt(node, fields, T) ==
    UNION {(IF depOf(node, fields[i]) = T THEN Range(fields[i].sub) ELSE {})
            \cup entriesAt(depOf(node, fields[i]), fields[i].sub, T) :
                i \in {j \in 1..Len(fields) :
                            isDepField(reg, node, fields[j])}}

\* the entries contributed to the entry of T by the paths of the request
contributed(T) ==
    (IF request.root = T /\ SrcTruthy(request.source)
     THEN Range(request.fields) ELSE {})
    \cup entriesAt(request.root, request.fields, T)

\* C17: a nested sub-selection that a path of the request contributed to
\* the entry of a type is still whole in the entry's fields: no later merge
\* removed or shrank it.
C17_FieldsOnlyGain ==
    \A T \in TypeNames : \A e \in contributed(T) :
        e.t => /\ HasKey(cache[T].fields, e.name)
               /\ names(e.sub) \subseteq
                    names(cache[T].fields[KeyIndex(cache[T].fields, e.name)].sub)
\* the signatures memoized in the entry of a type
memoized(ch, T) == ch[T].calls \cup {m.hash : m \in ch[T].inits}

\* C18: no step removes an entity identifier from the entity map of a
\* type's entry, the pre-scan puts every identifier of the source into the
\* root's entry, and once the incremental load runs no step removes a
\* memoized call signature.
C18_EntitiesAndCallsOnlyGrow ==
    [][/\ \A T \in TypeNames :
            /\ DOMAIN cache[T].data \subseteq DOMAIN cache'[T].data
            /\ result.status = "running" =>
                    memoized(cache, T) \subseteq memoized(cache', T)
       /\ (result.status = "idle" /\ result'.status = "running"
                /\ SrcTruthy(request'.source)) =>
            sourceIds(request'.heap, request'.source)
                \subseteq DOMAIN cache'[request'.root].data]_vars

\* the User entry knew user 7 from the source, memoized a loader call and
\* gained user 8 from it
C18_Witness ==
    /\ request.heap = KnownOwner
    /\ \E c \in loaderCalls("User") :
        /\ Resolved(c)
        /\ calls[c].hash \in cache["User"].calls
    /\ {7, 8} \subseteq DOMAIN cache["User"].data
\* the signatures of the invocations of a kind that a load() call made for
\* a type and that resolved
ownResolved(st, kind, T) ==
    {st.calls[c].hash : c \in {d \in 1..Len(st.calls) :
        /\ st.calls[d].kind = kind
        /\ st.calls[d].type = T
        /\ st.calls[d].state = "resolved"}}

\* the entities the pre-scan of a load() call finds for a type in the
\* call's own source
ownKnown(st, T) ==
    DOMAIN buildResolutionCache(reg, st.request.heap, st.request.root,
                st.request.fields, st.request.source, 1,
                [cache |-> [t \in TypeNames |-> EmptyEntry],
                 deepest |-> 0]).cache[T].data

\* the entities the loader invocations of a load() call returned
ownLoaded(st) ==
    {KeyOf(st.heap[a]["id"]) : a \in Len(st.request.heap) + 1..Len(st.heap)}

\* the cache of a load() call holds only what the call itself produced
ownCache(st) ==
    \A T \in TypeNames :
        /\ st.cache[T].calls \subseteq ownResolved(st, "loader", T)
        /\ {m.hash : m \in st.cache[T].inits} \subseteq ownResolved(st, "init", T)
        /\ st.result.status # "idle" =>
                DOMAIN st.cache[T].data \subseteq ownKnown(st, T) \cup ownLoaded(st)
        /\ \A id \in DOMAIN st.cache[T].data :
                /\ st.cache[T].data[id] \in 1..Len(st.heap)
                /\ KeyOf(st.heap[st.cache[T].data[id]]["id"]) = id

\* the load() call the event loop is running
running ==
    [request |-> request, heap |-> heap, cache |-> cache, frames |-> frames,
     calls |-> calls, scan |-> scan, result |-> result]

\* C19: of two load() calls on distinct entities, sequential or
\* interleaved, each has in its cache only the signatures of its own
\* resolved invocations and only the entities of its own source and of its
\* own loader invocations, so that neither skips a call nor maps data on
\* account of the other.
C19_CachePrivate ==
    ownCache(running) /\ ownCache(parked)

\* one call waits for its User loader while the other, made for another
\* company, has invoked the loader with the same signature and memoized it
C19_Witness ==
    /\ request.source # parked.request.source
    /\ parked.result.status = "running"
    /\ \E c \in loaderCalls("User") : \E d \in 1..Len(parked.calls) :
        /\ Resolved(c)
        /\ calls[c].hash \in cache["User"].calls
        /\ parked.calls[d].kind = "loader"
        /\ parked.calls[d].state = "pending"
        /\ parked.calls[d].hash = calls[c].hash
\* whether two filters hold the same keys and, under each key, the same
\* set of values
sameArgs(f, g) ==
    /\ {f[i].key : i \in 1..Len(f)} = {g[i].key : i \in 1..Len(g)}
    /\ \A i \in 1..Len(f) : \A j \in 1..Len(g) :
            f[i].key = g[j].key => Range(f[i].vals) = Range(g[j].vals)

\* C20: two loader invocations for the same type whose filters hold the
\* same keys and the same sets of values, in whatever order, have the same
\* signature.
C20_SignatureIgnoresOrder ==
    \A c \in 1..Len(calls) : \A d \in 1..Len(calls) :
        (/\ calls[c].kind = "loader"
         /\ calls[d].kind = "loader"
         /\ calls[c].type = calls[d].type
         /\ sameArgs(calls[c].filter, calls[d].filter))
            => calls[c].hash = calls[d].hash
\* the node behind the r-th reference create() returned
nodeBehind(r) == setup.nodes[setup.refs[r].node]

\* C21: the references create() returned for one type are one node, of
\* that type, so that a loader or initializer defined through one of them
\* is the one seen through the others; references for different types are
\* different nodes.
C21_OneNodePerType ==
    \A r \in 1..Len(setup.refs) : \A q \in 1..Len(setup.refs) :
        /\ nodeBehind(r).type = setup.refs[r].type
        /\ (setup.refs[r].type = setup.refs[q].type)
                <=> (setup.refs[r].node = setup.refs[q].node)
        /\ setup.refs[r].type = setup.refs[q].type =>
                /\ nodeBehind(r).loader = nodeBehind(q).loader
                /\ nodeBehind(r).init = nodeBehind(q).init

\* create() was called twice for one type and once for another, and a
\* loader and an initializer were defined for the first type
C21_Witness ==
    \E r \in 1..Len(setup.refs) : \E q \in 1..Len(setup.refs) :
        \E p \in 1..Len(setup.refs) :
            /\ r # q
            /\ setup.refs[r].type = setup.refs[q].type
            /\ setup.refs[p].type # setup.refs[r].type
            /\ nodeBehind(q).loader # 0
            /\ nodeBehind(q).init # 0
\* the types the request reaches through relation fields to registered
\* types
reached == {T \in TypeNames : entriesAt(request.root, request.fields, T) # {}}

\* C22: whenever a loader or an initializer has been invoked, the cache
\* already holds, for every type the request tree reaches at any depth, an
\* entry with every field name the tree selects for that type: the
\* pre-scan was complete before the first invocation.
C22_ScanBeforeFetch ==
    (\E c \in 1..Len(calls) : calls[c].kind \in {"loader", "init"}) =>
        \A T \in reached :
            /\ cache[T].has
            /\ namesAt(request.root, request.fields, T)
                    \subseteq names(cache[T].fields)

\* the first loader invocations of a request two relations deep are in
\* flight, none has resolved, and the entries of both levels are in the
\* cache
C22_Witness ==
    /\ request.given = Fields(CycleTree)
    /\ calls # <<>>
    /\ \A c \in 1..Len(calls) : Pending(c) /\ calls[c].kind = "loader"
    /\ HasKey(cache["User"].fields, "ownerOf")
    /\ HasKey(cache["Company"].fields, "owner")
\* the partial fields the data an initializer call resolves with holds
\* under the id of the entity at address a, as a set of entries [f, v]
partialOf(c, a) ==
    LET data == initResult(calls[c].type, heap,
                           frames[calls[c].frame].source).rows
    IN UNION {Range(data[i].set) :
                i \in {j \in 1..Len(data) :
                            data[j].id = KeyOf(heap[a]["id"])}}

\* the entity at address a after the initializer call c resolved, as the
\* claim has it: an entity has an identifier when its id is truthy, which
\* is how the code tests it
afterInit(c, a) ==
    IF /\ a \in Range(frames[calls[c].frame].source.items)
       /\ Truthy(heap[a]["id"])
    THEN [f \in EFields |->
            IF \E e \in partialOf(c, a) : e.f = f
            THEN (CHOOSE e \in partialOf(c, a) : e.f = f).v
            ELSE heap[a][f]]
    ELSE heap[a]

\* C23: when an initializer call resolves, every source entity whose
\* identifier is a key of the result has the returned fields overwritten
\* and its other fields kept; source entities under whose identifier the
\* result has nothing, or that have no identifier, and all other entities
\* are unchanged.
C23_InitMergesById ==
    [][\A c \in 1..Len(calls) :
        (/\ calls[c].kind = "init"
         /\ calls[c].state = "pending"
         /\ calls'[c].state = "resolved")
            => /\ Len(heap') = Len(heap)
               /\ \A a \in 1..Len(heap) : heap'[a] = afterInit(c, a)]_vars

\* an initializer call resolved for company 1 and a company without id:
\* the first got its rating, the second did not
C23_Witness ==
    /\ request.heap = NoIdCompanies
    /\ \E c \in 1..Len(calls) : calls[c].kind = "init" /\ Resolved(c)
    /\ heap[1]["rating"] = Num(5)
    /\ heap[2]["rating"] = Nil
\* C24: a relation load called on a level whose source is falsy is
\* rejected at once with the error makeCallArgs throws: no loader is
\* invoked, and neither the cache nor any entity is changed.
C24_FalsySourceFailsFast ==
    [][(/\ result.status = "idle"
        /\ result'.status # "idle"
        /\ frames # <<>>
        /\ ~SrcTruthy(frames[1].source))
            => /\ result'.status = "rejected"
               /\ calls' = Append(calls, calls'[Len(calls')])
               /\ calls'[Len(calls')].kind = "throw"
               /\ cache' = cache
               /\ heap' = heap]_vars

\* requestLoader was called for Company.owner on a level without source
\* and its promise is rejected
C24_Witness ==
    /\ frames # <<>>
    /\ ~SrcTruthy(frames[1].source)
    /\ cache["User"].has
    /\ result.status = "rejected"
    /\ Len(calls) = 1
    /\ calls[1].option = ownerOption
\* the loader and initializer invocations a level made, in a call log
ownCalls(log, f) ==
    {c \in 1..Len(log) : log[c].frame = f /\ log[c].kind \in {"loader", "init"}}

\* the level is past the fan-out of its relation loads
fannedOut(f) == frames[f].pc \in {"join", "joinKids", "done", "failed", "capped"}

\* the level is past the start of its children's loads
descended(f) == frames[f].pc \in {"joinKids", "done", "failed", "capped"}

\* C25: the calls of a level are all issued by the time it first waits for
\* them (none is added later); a child's load exists only when every call
\* of its parent level has resolved; the children's loads of a level are
\* all started in one go; and a level that has returned has all its
\* children's loads done.
C25_FanOutFanIn ==
    /\ [](\A k \in 1..Len(frames) :
            frames[k].parent # 0 =>
                \A c \in ownCalls(calls, frames[k].parent) : Resolved(c))
    /\ [](\A f \in 1..Len(frames) :
            frames[f].pc = "done" =>
                \A k \in frames[f].kids : frames[k].pc = "done")
    /\ [][\A f \in 1..Len(frames) :
            /\ fannedOut(f) => ownCalls(calls', f) = ownCalls(calls, f)
            /\ descended(f) => frames'[f].kids = frames[f].kids
            /\ frames'[f].kids # frames[f].kids =>
                    \A c \in ownCalls(calls, f) : Resolved(c)]_vars

\* the root level issued two loader calls, both resolved, then started
\* the loads of its two children, and returned after both were done
C25_Witness ==
    /\ request.given = Fields(BothTree)
    /\ frames # <<>>
    /\ frames[1].pc = "done"
    /\ Cardinality(frames[1].kids) = 2
    /\ Cardinality(ownCalls(calls, 1)) >= 2
\* C26: a signature enters the memo of a type only in a step in which a
\* loader invocation with that signature resolves, never when the memo is
\* checked and the loader invoked; so two relation calls of one fan-out
\* with the same signature both find no entry and both invoke the loader.
C26_MemoWrittenAfterAwait ==
    [][\A T \in TypeNames : \A h \in cache'[T].calls \ cache[T].calls :
        \E c \in 1..Len(calls) :
            /\ calls[c].kind = "loader"
            /\ calls[c].type = T
            /\ calls[c].hash = h
            /\ calls[c].state = "pending"
            /\ calls'[c].state = "resolved"]_vars

\* two loader invocations of one level, with the same type, filter and
\* signature, are in flight and the signature is not memoized
C26_Witness ==
    \E c \in 1..Len(calls) : \E d \in 1..Len(calls) :
        /\ c # d
        /\ calls[c].kind = "loader"
        /\ calls[d].kind = "loader"
        /\ calls[c].frame = calls[d].frame
        /\ calls[c].type = calls[d].type
        /\ calls[c].filter = calls[d].filter
        /\ calls[c].hash = calls[d].hash
        /\ Pending(c)
        /\ Pending(d)
        /\ calls[c].hash \notin cache[calls[c].type].calls
\* the values the entities at the addresses items hold in a field, the
\* elements of list values taken one by one (an entity without the field
\* holds undefined there)
found(hp, items, name) ==
    UNION {IF IsArray(hp[items[i]][name])
           THEN Range(Elems(hp[items[i]][name]))
           ELSE {hp[items[i]][name]} : i \in 1..Len(items)}

\* the identifiers in the entity map of a type, as values
knownIds(ch, T) == {Num(id) : id \in DOMAIN ch[T].data}

\* C27: in the step that issues a loader invocation, its filter holds one
\* entry per key of the relation's filter, in which no value occurs twice
\* and whose values are those found in the source field over the level's
\* source instances, less, for the key id, the identifiers in the child
\* type's entity map.
C27_FilterArguments ==
    [][\A c \in Len(calls) + 1..Len(calls') :
        calls'[c].kind = "loader" =>
            /\ Len(calls'[c].filter) = Len(calls'[c].option.filter)
            /\ \A i \in 1..Len(calls'[c].filter) :
                /\ calls'[c].filter[i].key = calls'[c].option.filter[i].key
                /\ Cardinality(Range(calls'[c].filter[i].vals))
                        = Len(calls'[c].filter[i].vals)
                /\ Range(calls'[c].filter[i].vals) =
                        found(heap', frames'[calls'[c].frame].source.items,
                              calls'[c].option.filter[i].src)
                        \ (IF calls'[c].filter[i].key = "id"
                            THEN knownIds(cache', calls'[c].type)
                            ELSE {})]_vars

\* companies 1 and 3 have the owners 7 and 8, user 7 is known: the loader
\* is asked for user 8 alone
C27_Witness ==
    /\ request.heap = KnownOwner
    /\ \E c \in loaderCalls("User") :
        /\ calls[c].frame = 1
        /\ calls[c].filter = << [key |-> "id", vals |-> << Num(8) >>] >>
    /\ found(request.heap, request.source.items, "ownerId") = {Num(7), Num(8)}
\* whether some requested relation field of the level has a registered
\* descriptor whose filter takes its values from a trigger field of the
\* node's initializer
dependsOnTrigger(node, fields) ==
    \E i \in 1..Len(fields) :
        /\ isDepField(reg, node, fields[i])
        /\ reg.options[node][depOf(node, fields[i])].has
        /\ usesInitField(reg, node, reg.options[node][depOf(node, fields[i])])

\* C28: for a node whose initializer has trigger fields, a level whose
\* initializer call is in flight waits for it alone exactly when a
\* requested relation depends on a trigger field, whatever the order of
\* the requested fields and whatever other relation fields are requested.
C28_BlockingDecision ==
    \A f \in 1..Len(frames) :
        (/\ reg.init[frames[f].node]
         /\ reg.initFieldNames[frames[f].node] # <<>>
         /\ \E c \in 1..Len(calls) :
                calls[c].kind = "init" /\ calls[c].frame = f /\ Pending(c))
            => ((frames[f].pc = "waitInit")
                    <=> dependsOnTrigger(frames[f].node, frames[f].fields))
\* the relation field of its parent level through which a level was
\* reached: the children of a level are started in the order of its
\* relation fields
fieldOf(k) ==
    frames[frames[k].parent].children[
        Cardinality({j \in frames[frames[k].parent].kids : j <= k})].field

RECURSIVE portion(_)
\* the selection of the request tree at the path of a level, empty when
\* the request selects nothing there
portion(f) ==
    IF frames[f].parent = 0 THEN request.fields
    ELSE IF HasKey(portion(frames[f].parent), fieldOf(f))
         THEN portion(frames[f].parent)[
                KeyIndex(portion(frames[f].parent), fieldOf(f))].sub
         ELSE <<>>

\* C29: the relation fields a level of the incremental load works on, for
\* relation loads and for further descents, are relation fields that the
\* request tree selects at the path of that level.
C29_DescentFollowsTree ==
    \A f \in 1..Len(frames) : \A i \in 1..Len(frames[f].fields) :
        isDepField(reg, frames[f].node, frames[f].fields[i])
            => HasKey(portion(f), frames[f].fields[i].name)
\* the entities a relation field value refers to
referred(v) ==
    CASE v.k = "ref" -> {v.n}
      [] v.k = "refs" -> Range(v.s)
      [] OTHER -> {}

RECURSIVE entitiesAt(_, _, _, _, _)
\* the entities of type T that the data hp holds behind the requested
\* relation fields, at and below the entities items of type node whose
\* selection is fields
entitiesAt(hp, node, fields, items, T) ==
    UNION {LET kids == UNION {referred(hp[a][fields[i].name]) : a \in items}
           IN (IF depOf(node, fields[i]) = T THEN kids ELSE {})
              \cup entitiesAt(hp, depOf(node, fields[i]), fields[i].sub,
                              kids, T) :
                i \in {j \in 1..Len(fields) :
                            isDepField(reg, node, fields[j])}}

\* the entities of type T reachable from the root source of a request
reachable(req, T) ==
    IF ~SrcTruthy(req.source) THEN {}
    ELSE (IF req.root = T THEN Range(req.source.items) ELSE {})
         \cup entitiesAt(req.heap, req.root, req.fields,
                         Range(req.source.items), T)

\* whether the entity map of an entry holds, under the identifier of the
\* entity a, an entity with that identifier
holds(entry, hp, a) ==
    /\ KeyOf(hp[a]["id"]) \in DOMAIN entry.data
    /\ hp[entry.data[KeyOf(hp[a]["id"])]]["id"] = hp[a]["id"]

\* C30: when load() was given fields and has run the pre-scan, the entry of every type holds,
\* keyed by identifier, every entity of that type that the source data
\* reaches from the root source through requested relation fields, list
\* values flattened, and the root's entry holds every root source entity.
C30_PreScanKnowsEntities ==
    [][(/\ result.status = "idle"
        /\ result'.status # "idle"
        /\ request'.given.present) =>
            \A T \in TypeNames : \A a \in reachable(request', T) :
                /\ cache'[T].has
                /\ holds(cache'[T], request'.heap, a)]_vars

\* the pre-scan of the crossed companies with known members ran: users 7
\* and 8, from the two member lists, stand in the User entry and company
\* 2, reached through members and ownerOf, in the Company entry, and no
\* loader has resolved
C30_Witness ==
    /\ request.heap = KnownMembers
    /\ result.status = "running"
    /\ \A c \in 1..Len(calls) : Pending(c)
    /\ reachable(request, "User") = {3, 4}
    /\ {7, 8} \subseteq DOMAIN cache["User"].data
    /\ {1, 2} \subseteq DOMAIN cache["Company"].data
\* the destination field of every item of source holds, after the step,
\* what the mapper assigns from the whole entity map of dep: all the
\* matching entities for a list field, one of them for a single field
\* when there is one
mappedOnto(source, option, dep) ==
    \A i \in 1..Len(source.items) :
        LET nodes == matched(heap', cache'[dep].data, source.items[i], option)
            to == heap'[source.items[i]][option.as.name]
        IN IF isListField(option.as)
           THEN to.k = "refs" /\ Range(to.s) = nodes
           ELSE nodes # {} => (to.k = "ref" /\ to.n \in nodes)

\* the level f ran its fan-out in the step
dispatchedNow(f) ==
    /\ SrcTruthy(frames'[f].source)
    /\ frames'[f].pc \in {"join", "joinKids", "done", "capped"}
    /\ f \in 1..Len(frames) => frames[f].pc \in {"start", "waitInit"}

\* the fan-out of level f requested option without invoking a loader: the
\* filter was empty or the signature memoized
answeredAtOnce(f, option) ==
    ~\E c \in (Len(calls) + 1)..Len(calls') :
        calls'[c].frame = f /\ calls'[c].option = option

\* the relation requests the fan-out of level f makes, as [dep, option]
requestsOf(f) ==
    UNION {{[dep |-> depOf(frames'[f].node, frames'[f].fields[i]), option |-> o] :
                o \in Range(optionsOf(frames'[f].node,
                            depOf(frames'[f].node, frames'[f].fields[i])))} :
            i \in {j \in 1..Len(frames'[f].fields) :
                /\ isDepField(reg, frames'[f].node, frames'[f].fields[j])
                /\ reg.loader[depOf(frames'[f].node, frames'[f].fields[j])]}}

\* C31: a relation request of a level ends with the mapper run over every
\* source instance of the level against the child's whole entity map: when
\* its loader invocation resolves, and at once when no loader is invoked
\* because the filter is empty or the signature is memoized.
C31_RequestEndsMapped ==
    [][/\ \A c \in 1..Len(calls) :
            (calls[c].kind = "loader" /\ Pending(c)
                /\ calls'[c].state = "resolved") =>
                mappedOnto(frames[calls[c].frame].source, calls[c].option,
                           calls[c].type)
       /\ \A f \in 1..Len(frames') : \A r \in requestsOf(f) :
            (dispatchedNow(f) /\ answeredAtOnce(f, r.option)) =>
                mappedOnto(frames'[f].source, r.option, r.dep)]_vars
\* the companies owned by user 7 are a level of their own, two levels
\* below the root: their members request had the signature the root's
\* members call memoized, so that no User loader was invoked for it, and
\* the companies hold their member lists, one of them not empty
C31_Witness ==
    /\ request.given = Fields(CycleTree)
    /\ \E f \in 1..Len(frames) :
        /\ frames[f].node = "Company"
        /\ frames[f].depth = 3
        /\ frames[f].pc = "join"
        /\ \E c \in loaderCalls("User") :
                /\ calls[c].frame = 1
                /\ calls[c].option = membersOption
                /\ Resolved(c)
                /\ calls[c].hash \in cache["User"].calls
        /\ ~\E c \in loaderCalls("User") :
                calls[c].frame = f /\ calls[c].option = membersOption
        /\ \A i \in 1..Len(frames[f].source.items) :
                heap[frames[f].source.items[i]]["members"].k = "refs"
        /\ \E i \in 1..Len(frames[f].source.items) :
                heap[frames[f].source.items[i]]["members"].s # <<>>
RECURSIVE normalised(_, _)
\* fields is the selection given with the identifier field at every level:
\* the keys of given and id, each once; every entry of given as it was, a
\* nested selection normalised in turn; id: false where given had no id
normalised(given, fields) ==
    /\ names(fields) = names(given) \cup {"id"}
    /\ Len(fields) = Cardinality(names(fields))
    /\ \A i \in 1..Len(given) :
            /\ fields[KeyIndex(fields, given[i].name)].t = given[i].t
            /\ IF given[i].t
               THEN normalised(given[i].sub,
                        fields[KeyIndex(fields, given[i].name)].sub)
               ELSE fields[KeyIndex(fields, given[i].name)] = given[i]
    /\ ~HasKey(given, "id") =>
            fields[KeyIndex(fields, "id")] = Leaf("id")

\* C32: once load() has started with a field tree, the tree it works on is
\* the tree given with the identifier field at the root and in every
\* nested selection: an id the caller supplied is kept as it was and the
\* other entries are the caller's.
C32_IdAtEveryLevel ==
    (request.given.present /\ result.status # "idle") =>
        normalised(request.given.tree, request.fields)

\* load() started with a tree that asks for id at the root and under owner
\* and not under members: the ids given stand where they stood and members
\* gained one
C32_Witness ==
    /\ request.given = Fields(IdTree)
    /\ result.status = "running"
    /\ request.fields[1] = Leaf("id")
    /\ request.fields[2] = Sel("owner", << Leaf("id"), Leaf("name") >>)
    /\ request.fields[3] = Sel("members", << Leaf("name"), Leaf("id") >>)
\* whether the selection of a level asks for the destination field of an
\* option as a relation
asksFor(fields, option) ==
    \E i \in 1..Len(fields) : fields[i].t /\ fields[i].name = option.as.name

\* C33: a loader is invoked at a level only for a descriptor whose
\* destination field the level's selection requests, and a root source
\* entity keeps, on the destination field of a descriptor that is not
\* requested, what it held when load() was called.
C33_OnlyRequestedDescriptors ==
    /\ \A c \in 1..Len(calls) :
            calls[c].kind = "loader" =>
                asksFor(frames[calls[c].frame].fields, calls[c].option)
    /\ \A T \in TypeNames :
       \A o \in Range(optionsOf(request.root, T)) :
       \A i \in 1..Len(request.source.items) :
            (frames # <<>> /\ ~asksFor(request.fields, o)) =>
                heap[request.source.items[i]][o.as.name]
                    = request.heap[request.source.items[i]][o.as.name]
\* the sources the initializer of a node was invoked with, as sets of
\* entities
initialized(node) ==
    {Range(frames[calls[c].frame].source.items) :
        c \in {d \in 1..Len(calls) :
                    calls[d].kind = "init" /\ calls[d].type = node}}

\* C34: when load() has resolved, every entity with an identifier that was
\* in the source of a level of a node with an initializer was in the
\* source of an invocation of that initializer.
C34_EveryEntityInitialized ==
    result.status = "resolved" =>
        \A f \in 1..Len(frames) :
            (reg.init[frames[f].node] /\ SrcTruthy(frames[f].source)) =>
                \A i \in 1..Len(frames[f].source.items) :
                    Truthy(heap[frames[f].source.items[i]]["id"]) =>
                        frames[f].source.items[i]
                            \in UNION initialized(frames[f].node)
\* C35: once the promise of load() has rejected, no step invokes a loader
\* or an initializer, writes a field of an entity or writes the cache of
\* that load().
C35_NothingAfterRejection ==
    [][result.status = "rejected" =>
            /\ Len(calls') = Len(calls)
            /\ heap' = heap
            /\ cache' = cache]_vars
RECURSIVE edgesAt(_, _)
\* the edges <<T, U>> of the type graph the request tree reaches: a
\* position of type T selects a relation to the registered type U
edgesAt(node, fields) ==
    UNION {{<<node, depOf(node, fields[i])>>}
            \cup edgesAt(depOf(node, fields[i]), fields[i].sub) :
                i \in {j \in 1..Len(fields) :
                            isDepField(reg, node, fields[j])}}

\* one more step along the edges
joined(E) ==
    E \cup {<<p[1][1], p[2][2]>> :
                p \in {q \in E \X E : q[1][2] = q[2][1]}}

\* no type of the request's type graph is reached from itself
acyclic ==
    \A T \in TypeNames :
        <<T, T>> \notin joined(joined(edgesAt(request.root, request.fields)))

\* load() resolved with the source it was given, every source entity the
\* object it was
returnedSource ==
    /\ result.status = "resolved"
    /\ frames # <<>> => frames[1].source = request.source
    /\ \A i \in 1..Len(request.source.items) :
            heap[request.source.items[i]]["id"]
                = request.heap[request.source.items[i]]["id"]

\* C36: when the type graph the request tree reaches is acyclic and every
\* loader and initializer call resolves, a load() that was started resolves
\* in the end, with the source it was given.
C36_AcyclicLoadResolves ==
    (result.status = "running" /\ acyclic) ~> returnedSource

\* the load of the owner and, through the audit, of the auditor of a
\* company has resolved: three levels deep, the initializer of User
\* invoked for both User levels
C36_Witness ==
    /\ request.given = Fields(AuditorTree)
    /\ acyclic
    /\ returnedSource
    /\ \E f \in 1..Len(frames) : frames[f].depth = 3 /\ frames[f].pc = "done"
    /\ Cardinality({c \in 1..Len(calls) : calls[c].kind = "init"}) = 2
\* what a require(child, providers) call on the node n leaves behind
requiredOn(n, child, providers) ==
    /\ setup'.nodes[n].options[child] = Options(providers)
    /\ \A t \in TypeNames \ {child} :
            setup'.nodes[n].options[t] = setup.nodes[n].options[t]
    /\ setup'.nodes[n].loader = setup.nodes[n].loader
    /\ setup'.nodes[n].init = setup.nodes[n].init
    /\ \A m \in (1..Len(setup.nodes)) \ {n} :
            setup'.nodes[m] = setup.nodes[m]
    /\ setup'.deps[child] \in 1..Len(setup'.nodes)
    /\ setup'.nodes[setup'.deps[child]].type = child
    /\ \A t \in TypeNames \ {child} : setup'.deps[t] = setup.deps[t]
    /\ calls' = calls

\* C37: a require(child, providers) call stores the providers given, as
\* given, in place of those the node had for that child, leaves the
\* node's providers for other children, its loader and its initializer
\* and every other node as they were, invokes no loader, and the child
\* has its node in the registry afterwards.
C37_RequireReplaces ==
    [][\A r \in 1..Len(setup.refs) : \A child \in TypeNames :
       \A providers \in Providers :
            Require(r, child, providers) =>
                requiredOn(setup.refs[r].node, child, providers)]_vars

\* Company has a loader and an initializer, requires User with the
\* providers of a second require() call and Audit with those of another
C37_Witness ==
    /\ setup.deps["Company"] # 0
    /\ setup.deps["User"] # 0
    /\ setup.nodes[setup.deps["Company"]].loader # 0
    /\ setup.nodes[setup.deps["Company"]].init # 0
    /\ setup.nodes[setup.deps["Company"]].options["User"] = Options(<<1>>)
    /\ setup.nodes[setup.deps["Company"]].options["Audit"]
            = Options(<<2, 1>>)
    /\ setup.nodes[setup.deps["User"]].loader = 0
\* the child types whose cache entry a level looks up: those of the
\* relation fields of its selection
lookedUp(f) ==
    {depOf(frames[f].node, frames[f].fields[i]) :
        i \in {j \in 1..Len(frames[f].fields) :
                    isDepField(reg, frames[f].node, frames[f].fields[j])}}

\* C38: the cache entry of every child type that a level of the
\* incremental load looks up, for a relation load or for a descent,
\* exists: no level fails on a missing entry.
C38_EntriesExist ==
    /\ \A f \in 1..Len(frames) :
            SrcTruthy(frames[f].source) =>
                \A T \in lookedUp(f) : cache[T].has
    /\ \A c \in 1..Len(calls) : cache[calls[c].type].has

\* from a company whose owner, audit and auditor were all unknown when the
\* pre-scan ran, the load has reached the auditor, two levels below the
\* root, and looked up the entries of User and Audit on its way
C38_Witness ==
    /\ request.given = Fields(AuditorTree)
    /\ result.status = "running"
    /\ \E f \in 1..Len(frames) :
        /\ frames[f].depth = 3
        /\ frames[f].node = "User"
        /\ frames[frames[f].parent].node = "Audit"
    /\ request.heap = AuditedCompany
    /\ reachable(request, "User") = {}
    /\ reachable(request, "Audit") = {}
\* C39: no relation request of a load() reaches the builder of the filter
\* arguments with a falsy source: every level that requested a relation,
\* whether the request invoked a loader or threw, has a source, so that
\* no request threw the contract violation.
C39_BrokenChainUnreachable ==
    \A c \in 1..Len(calls) :
        calls[c].kind \in {"loader", "throw"} =>
            SrcTruthy(frames[calls[c].frame].source)

\* a level below the root whose source is an empty list, no child having
\* been found, requested a relation and its loader was invoked
C39_Witness ==
    \E c \in 1..Len(calls) :
        /\ calls[c].kind = "loader"
        /\ frames[calls[c].frame].depth > 1
        /\ frames[calls[c].frame].source = Arr(<<>>)

====
